---- MODULE Spec2Model ----
(***************************************************************************)
(* A model of pali.canon: the answer synthesizer (synthesizer.py), the     *)
(* hybrid retriever (retriever.py), the citation normalizer (indexer.py),  *)
(* the alias resolver (alias_loader.py) and the query planner (planner.py).*)
(*                                                                         *)
(* Strings are sequences of one-character strings.  Pali letters with      *)
(* diacritics are written in the Velthuis ASCII scheme as one element:     *)
(* "aa" is a-macron, "ii" i-macron, "uu" u-macron, ".t" t-underdot,        *)
(* ".n" n-underdot, ".m" m-underdot, "\"n" n-overdot; capitals likewise     *)
(* ("AA", ".T", ...); "!i" is the dotless i (U+0131).  A fixed message    *)
(* of the program is a one-element sequence holding the message's name.    *)
(***************************************************************************)
EXTENDS Integers, Sequences, FiniteSets, TLC

VARIABLES
    op,        \* the operation that ran last
    syn_args,  \* synthesizer: the question (or topic) and the hits of the call
    llm_reply, \* synthesizer: the text llm.invoke returns if it is called
    syn_ret,   \* synthesizer: the text the last call returned
    llm_log,   \* synthesizer: the prompts the last call sent to llm.invoke
    MIN_HITS,  \* config.MIN_HITS, read from the environment at import
    cit_in,    \* citation normalizer: how the text of the call is written
    cit_out,   \* citation normalizer: the list _extract_citations returned
    question,  \* planner: the question of the user
    alias_table, \* planner: the alias data load_aliases read at import
    rapidfuzz, \* planner: whether rapidfuzz is installed, and the keys it matches
    plan,      \* the plan at hand
    main_out,  \* grg_local.py: the exception that ended main()
    ret_k,     \* retriever: the k of the call
    store,     \* retriever: the passages of the Chroma collection
    _bm25_docs, \* retriever: the documents of the BM25 index in memory
    BM25_CACHE, \* retriever: the documents of the BM25 index pickled on disk
    backend,   \* retriever: what the backends answer to the call
    ret_out,   \* retriever: what the last call returned or raised
    ret_log,   \* retriever: the backend calls the last call made
    ret_ranked, \* retriever: the candidates of the last call after the bias sort
    fuzzy_top_n, \* alias resolver: the top_n of a call of fuzzy_ids
    fuzzy_out, \* alias resolver: the list fuzzy_ids returned
    path_args, \* indexer: the folder path and file name of a PDF
    path_ret,  \* indexer: what _infer_nikaya_from_path returned for them
    helper_args, \* retriever: the arguments of a direct call of one of its helpers
    helper_ret, \* retriever: what that helper returned
    data_dir,  \* indexer: the PDFs under DATA, as the chunks of their pages
    embedding, \* indexer: how the embedding backend answers add_documents
    build_log  \* indexer: how each build_index run so far ended

synVars == <<syn_args, llm_reply, syn_ret, llm_log, MIN_HITS>>
citVars == <<cit_in, cit_out>>
planVars == <<question, alias_table, rapidfuzz, plan, main_out>>
retVars == <<ret_k, store, _bm25_docs, BM25_CACHE, backend, ret_out, ret_log, ret_ranked>>
utilVars == <<fuzzy_top_n, fuzzy_out, path_args, path_ret>>
helperVars == <<helper_args, helper_ret>>
indexVars == <<data_dir, embedding, build_log>>
vars == <<op, synVars, citVars, planVars, retVars, utilVars, helperVars, indexVars>>

\* Python's None (no document of the corpus carries this name).
None == <<"None">>

Truthy(x) == x # None /\ x # <<>>

Range(s) == {s[i] : i \in DOMAIN s}

(***************************************************************************)
(* Bounds of the model                                                     *)
(***************************************************************************)
\* The longest list of hits handed to the synthesizer.
MaxHits == 3
\* The largest value RAG_MIN_HITS is given in the environment.
MaxMinHits == 3
\* The largest k retrieve is called with.
MaxK == 2
\* The largest top_n fuzzy_ids is called with.
MaxTopN == 3
\* The most result lists one fusion is given.
MaxLists == 3

(***************************************************************************)
(* Characters: str.lower(), unicodedata, and the classes \s, \d, \w of re  *)
(***************************************************************************)
\* The characters of the model in code-point order.
Charset ==
    <<"\n", " ", ",", "-", ".", "/", "0", "1", "2", "3", "4", "5", "6", "7",
      "8", "9", ":", "?",
      "A", "B", "C", "D", "E", "F", "G", "H", "I", "J", "K", "L", "M", "N",
      "O", "P", "Q", "R", "S", "T", "U", "V", "W", "X", "Y", "Z", "_",
      "a", "b", "c", "d", "e", "f", "g", "h", "i", "j", "k", "l", "m", "n",
      "o", "p", "q", "r", "s", "t", "u", "v", "w", "x", "y", "z",
      "AA", "aa", "II", "ii", "!i", "UU", "uu", ".M", ".m", "\"N", "\"n",
      ".N", ".n", ".T", ".t">>

UpperCase ==
    <<"A", "B", "C", "D", "E", "F", "G", "H", "I", "J", "K", "L", "M", "N",
      "O", "P", "Q", "R", "S", "T", "U", "V", "W", "X", "Y", "Z",
      "AA", "II", "UU", ".M", "\"N", ".N", ".T">>

LowerCase ==
    <<"a", "b", "c", "d", "e", "f", "g", "h", "i", "j", "k", "l", "m", "n",
      "o", "p", "q", "r", "s", "t", "u", "v", "w", "x", "y", "z",
      "aa", "ii", "uu", ".m", "\"n", ".n", ".t">>

\* The letters that carry a diacritic, and the letter NFKD leaves of each
\* once the combining mark is dropped.
Marked == <<"AA", "aa", "II", "ii", "UU", "uu", ".M", ".m", "\"N", "\"n", ".N", ".n", ".T", ".t">>
Unmarked == <<"A", "a", "I", "i", "U", "u", "M", "m", "N", "n", "N", "n", "T", "t">>

IndexIn(seq, c) == CHOOSE i \in DOMAIN seq : seq[i] = c

LowerOf == [c \in Range(UpperCase) |-> LowerCase[IndexIn(UpperCase, c)]]
UpperOf == [c \in Range(LowerCase) |-> UpperCase[IndexIn(LowerCase, c)]]
PlainOf == [c \in Range(Marked) |-> Unmarked[IndexIn(Marked, c)]]
CodePoint == [c \in Range(Charset) |-> IndexIn(Charset, c)]

\* The dotless i is a lowercase letter whose capital is the plain I; NFKD
\* leaves it as it is.
DotlessI == "!i"

lower_char(c) == IF c \in DOMAIN LowerOf THEN LowerOf[c] ELSE c
upper_char(c) ==
    IF c = DotlessI THEN "I" ELSE IF c \in DOMAIN UpperOf THEN UpperOf[c] ELSE c

\* The letter re compares under re.IGNORECASE: the lowercase letter, and the
\* dotless i counts as an i.
fold_char(c) == IF c = DotlessI THEN "i" ELSE lower_char(c)

\* Mutant: the .lower() calls are missing.
lower_missing(s) == s

\* str.lower() and str.upper()
lower(s) == [i \in DOMAIN s |-> lower_char(s[i])]
upper(s) == [i \in DOMAIN s |-> upper_char(s[i])]

Whitespace == {" ", "\n"}
Digits == {"0", "1", "2", "3", "4", "5", "6", "7", "8", "9"}
IsDigit(c) == c \in Digits
IsSpace(c) == c \in Whitespace
IsWordChar(c) ==
    c \in Range(UpperCase) \cup Range(LowerCase) \cup {DotlessI} \cup Digits \cup {"_"}

\* The character at index i, or "" outside the string.
At(t, i) == IF i \in DOMAIN t THEN t[i] ELSE ""

\* \b before index p (between t[p-1] and t[p]).
WordBoundary(t, p) == IsWordChar(At(t, p - 1)) # IsWordChar(At(t, p))

\* A literal of a pattern compiled with re.IGNORECASE, matched at index i.
MatchesAt(t, i, w) ==
    /\ i + Len(w) - 1 <= Len(t)
    /\ \A k \in DOMAIN w : fold_char(t[i + k - 1]) = fold_char(w[k])

\* s in t, for strings
Contains(t, s) == \E i \in 1..(Len(t) - Len(s) + 1) : SubSeq(t, i, i + Len(s) - 1) = s

\* The order of str: by code point, a proper prefix first.
RECURSIVE StrLess(_, _)
StrLess(a, b) ==
    IF a = <<>> THEN b # <<>>
    ELSE IF b = <<>> THEN FALSE
    ELSE IF Head(a) = Head(b) THEN StrLess(Tail(a), Tail(b))
    ELSE CodePoint[Head(a)] < CodePoint[Head(b)]

\* sorted(S) of a set of strings
RECURSIVE sorted(_)
sorted(S) ==
    IF S = {} THEN <<>>
    ELSE LET m == CHOOSE x \in S : \A y \in S \ {x} : StrLess(x, y)
         IN <<m>> \o sorted(S \ {m})

(***************************************************************************)
(* Backtracking as re does it: every stage lists the positions it can end  *)
(* at in the order re tries them (a greedy quantifier longest first), and  *)
(* the match is the first complete one.                                    *)
(***************************************************************************)
RECURSIVE FlatMap(_, _)
FlatMap(F(_), s) == IF s = <<>> THEN <<>> ELSE F(Head(s)) \o FlatMap(F, Tail(s))

RECURSIVE SelectFirst(_, _, _)
SelectFirst(s, Test(_), default) ==
    IF s = <<>> THEN default
    ELSE IF Test(Head(s)) THEN Head(s)
    ELSE SelectFirst(Tail(s), Test, default)

\* n, n-1, ..., lo
DownTo(n, lo) == [k \in 1..(n - lo + 1) |-> n + 1 - k]

RECURSIVE SpaceRun(_, _)
SpaceRun(t, p) == IF IsSpace(At(t, p)) THEN 1 + SpaceRun(t, p + 1) ELSE 0

RECURSIVE DigitRun(_, _, _)
DigitRun(t, p, max) ==
    IF max > 0 /\ IsDigit(At(t, p)) THEN 1 + DigitRun(t, p + 1, max - 1) ELSE 0

\* \s* at p: the positions after it
Spaces(t, p) == [k \in DOMAIN DownTo(SpaceRun(t, p), 0) |-> p + DownTo(SpaceRun(t, p), 0)[k]]

\* \s+ at p
Spaces1(t, p) == [k \in DOMAIN DownTo(SpaceRun(t, p), 1) |-> p + DownTo(SpaceRun(t, p), 1)[k]]

\* [seps]? at p
OptionalSep(t, p, seps) == IF At(t, p) \in seps THEN <<p + 1, p>> ELSE <<p>>

\* [seps] at p
OneSep(t, p, seps) == IF At(t, p) \in seps THEN <<p + 1>> ELSE <<>>

\* (\d{1,3}) at p: the positions after it
Digits13(t, p) == [k \in DOMAIN DownTo(DigitRun(t, p, 3), 1) |-> p + DownTo(DigitRun(t, p, 3), 1)[k]]

\* A partial match: the position after it and the numbers captured so far.
Partial(p, num1, num2) == [pos |-> p, num1 |-> num1, num2 |-> num2]

\* (\d{1,3})(?:<gap>(\d{1,3}))?\b from p, where Gap(q) lists the positions
\* after <gap> started at q.  The first complete match, or NoMatch.
NoMatch == [pos |-> 0, num1 |-> <<>>, num2 |-> <<>>]

Numbers(t, p, Gap(_)) ==
    LET first == FlatMap(LAMBDA e : <<Partial(e, SubSeq(t, p, e - 1), <<>>)>>, Digits13(t, p))
        withSecond(m) ==
            FlatMap(LAMBDA q :
                        FlatMap(LAMBDA e : <<Partial(e, m.num1, SubSeq(t, q, e - 1))>>,
                                Digits13(t, q)),
                    Gap(m.pos))
        all == FlatMap(LAMBDA m : withSecond(m) \o <<m>>, first)
    IN SelectFirst(all, LAMBDA m : WordBoundary(t, m.pos), NoMatch)

RefSeps == {"-", ".", ":"}
BookSeps == {".", ":"}

\* \s*[-\.:]\s*
RefGap(t, p) ==
    FlatMap(LAMBDA a : FlatMap(LAMBDA b : Spaces(t, b), OneSep(t, a, RefSeps)), Spaces(t, p))

\* [\.:]\s*
BookGap(t, p) == FlatMap(LAMBDA b : Spaces(t, b), OneSep(t, p, BookSeps))

\* \s*[-\.:]?\s*(\d{1,3})(?:\s*[-\.:]\s*(\d{1,3}))?\b from p
RefTail(t, p) ==
    LET starts == FlatMap(LAMBDA a : FlatMap(LAMBDA b : Spaces(t, b),
                                             OptionalSep(t, a, RefSeps)),
                          Spaces(t, p))
        tries == FlatMap(LAMBDA q : <<Numbers(t, q, LAMBDA g : RefGap(t, g))>>, starts)
    IN SelectFirst(tries, LAMBDA m : m # NoMatch, NoMatch)

\* \b\s*(\d{1,3})(?:[\.:]\s*(\d{1,3}))?\b from p
BookTail(t, p) ==
    IF ~WordBoundary(t, p) THEN NoMatch
    ELSE LET tries == FlatMap(LAMBDA q : <<Numbers(t, q, LAMBDA g : BookGap(t, g))>>,
                              Spaces(t, p))
         IN SelectFirst(tries, LAMBDA m : m # NoMatch, NoMatch)

(***************************************************************************)
(* indexer.py: the citation patterns                                       *)
(***************************************************************************)
NIKAYA_REF_CODES ==
    <<<<"D", "N">>, <<"M", "N">>, <<"S", "N">>, <<"A", "N">>,
      <<"D", "h", "p">>, <<"U", "d">>, <<"I", "t">>, <<"S", "n">>,
      <<"T", "h", "a", "g">>, <<"T", "h", "i", "g">>, <<"K", "h", "p">>,
      <<"V", "v">>, <<"P", "v">>, <<"J", "a">>>>

BOOK_REF_NAMES ==
    <<<<"D", "h", "a", "m", "m", "a", "p", "a", "d", "a">>,
      <<"D", "h", "p">>, <<"U", "d", "aa", "n", "a">>,
      <<"U", "d", "a", "n", "a">>, <<"U", "d">>,
      <<"I", "t", "i", "v", "u", "t", "t", "a", "k", "a">>, <<"I", "t">>>>

FULL_NIKAYA_NAMES ==
    <<<<"D", "ii", "g", "h", "a">>, <<"D", "i", "g", "h", "a">>,
      <<"M", "a", "j", "j", "h", "i", "m", "a">>,
      <<"S", "a", ".m", "y", "u", "t", "t", "a">>,
      <<"S", "a", "m", "y", "u", "t", "t", "a">>,
      <<"A", "\"n", "g", "u", "t", "t", "a", "r", "a">>,
      <<"A", "n", "g", "u", "t", "t", "a", "r", "a">>>>

SUTTA_NAMES ==
    <<<<"D", "h", "a", "m", "m", "a", "c", "a", "k", "k", "a", "p", "p", "a", "v", "a", "t", "t", "a", "n", "a">>,
      <<"A", "n", "a", "t", "t", "a", "l", "a", "k", "k", "h", "a", ".n", "a">>,
      <<"A", "n", "a", "t", "t", "a", "l", "a", "k", "k", "h", "a", "n", "a">>,
      <<"AA", "d", "i", "t", "t", "a", "p", "a", "r", "i", "y", "aa", "y", "a">>,
      <<"A", "d", "i", "t", "t", "a", "p", "a", "r", "i", "y", "a", "y", "a">>,
      <<"S", "a", "t", "i", "p", "a", ".t", ".t", "h", "aa", "n", "a">>,
      <<"S", "a", "t", "i", "p", "a", "t", "t", "h", "a", "n", "a">>,
      <<"M", "a", "h", "aa", "s", "a", "t", "i", "p", "a", ".t", ".t", "h", "aa", "n", "a">>,
      <<"M", "a", "h", "a", "s", "a", "t", "i", "p", "a", "t", "t", "h", "a", "n", "a">>,
      <<"K", "aa", "l", "aa", "m", "a">>,
      <<"K", "a", "l", "a", "m", "a">>,
      <<"S", "i", "g", "aa", "l", "o", "v", "aa", "d", "a">>,
      <<"S", "i", "g", "a", "l", "o", "v", "a", "d", "a">>,
      <<"M", "a", "h", "aa", "p", "a", "r", "i", "n", "i", "b", "b", "aa", "n", "a">>,
      <<"M", "a", "h", "a", "p", "a", "r", "i", "n", "i", "b", "b", "a", "n", "a">>,
      <<"K", "a", "k", "a", "c", "uu", "p", "a", "m", "a">>,
      <<"K", "a", "k", "a", "c", "u", "p", "a", "m", "a">>,
      <<"AA", "n", "aa", "p", "aa", "n", "a", "s", "a", "t", "i">>,
      <<"A", "n", "a", "p", "a", "n", "a", "s", "a", "t", "i">>>>

\* A match: group(1) is t[start..start+Len(g1)-1]; end is the index after it.
Match(start, end, g1, num1, num2) ==
    [ok |-> TRUE, start |-> start, end |-> end, g1 |-> g1, num1 |-> num1, num2 |-> num2]

NotFound == [ok |-> FALSE, start |-> 0, end |-> 0, g1 |-> <<>>, num1 |-> <<>>, num2 |-> <<>>]

\* \b(w1|w2|...)<tail> at index i: the alternatives in order, each followed
\* by Rest, which gives the first way the rest of the pattern matches.
Alternation(t, i, words, Rest(_)) ==
    IF ~WordBoundary(t, i) THEN NotFound
    ELSE LET tries ==
                 FlatMap(LAMBDA w :
                             IF MatchesAt(t, i, w)
                             THEN LET m == Rest(i + Len(w))
                                  IN IF m = NoMatch THEN <<>>
                                     ELSE <<Match(i, m.pos, SubSeq(t, i, i + Len(w) - 1),
                                                  m.num1, m.num2)>>
                             ELSE <<>>,
                         words)
         IN IF tries = <<>> THEN NotFound ELSE Head(tries)

NIKAYA_REF_RE(t, i) == Alternation(t, i, NIKAYA_REF_CODES, LAMBDA p : RefTail(t, p))

BOOK_REF_RE(t, i) == Alternation(t, i, BOOK_REF_NAMES, LAMBDA p : BookTail(t, p))

\* \s+(?:Nik-a-ya|Nikaya)<RefTail> from p
NikayaWord == <<<<"N", "i", "k", "aa", "y", "a">>, <<"N", "i", "k", "a", "y", "a">>>>

FullTail(t, p) ==
    LET tries ==
            FlatMap(LAMBDA a :
                        FlatMap(LAMBDA w :
                                    IF MatchesAt(t, a, w) THEN <<RefTail(t, a + Len(w))>>
                                    ELSE <<>>,
                                NikayaWord),
                    Spaces1(t, p))
    IN SelectFirst(tries, LAMBDA m : m # NoMatch, NoMatch)

FULL_NIKAYA_RE(t, i) == Alternation(t, i, FULL_NIKAYA_NAMES, LAMBDA p : FullTail(t, p))

\* (?:\s*Sutta\b)? from p: with the word if it is there, else without
SuttaWord == <<"S", "u", "t", "t", "a">>

SuttaSuffix(t, p) ==
    LET with == FlatMap(LAMBDA a :
                            IF MatchesAt(t, a, SuttaWord) /\ WordBoundary(t, a + Len(SuttaWord))
                            THEN <<Partial(a + Len(SuttaWord), <<>>, <<>>)>>
                            ELSE <<>>,
                        Spaces(t, p))
    IN Head(with \o <<Partial(p, <<>>, <<>>)>>)

SUTTA_NAME_RE(t, i) == Alternation(t, i, SUTTA_NAMES, LAMBDA p : SuttaSuffix(t, p))

\* pattern.finditer(t): the matches from left to right, each search starting
\* where the match before it ended.
RECURSIVE finditer(_, _, _)
finditer(Pattern(_, _), t, i) ==
    IF i > Len(t) THEN <<>>
    ELSE LET m == Pattern(t, i)
         IN IF m.ok THEN <<m>> \o finditer(Pattern, t, m.end)
            ELSE finditer(Pattern, t, i + 1)

(***************************************************************************)
(* indexer.py: normalization                                               *)
(***************************************************************************)
NIKAYA_ABBREV ==
    <<<<<<"d", "n">>, <<"D", "N">>>>,
      <<<<"d", "i", "g", "h", "a">>, <<"D", "N">>>>,
      <<<<"d", "ii", "g", "h", "a">>, <<"D", "N">>>>,
      <<<<"m", "n">>, <<"M", "N">>>>,
      <<<<"m", "a", "j", "j", "h", "i", "m", "a">>, <<"M", "N">>>>,
      <<<<"s", "n">>, <<"S", "N">>>>,
      <<<<"s", "a", "m", "y", "u", "t", "t", "a">>, <<"S", "N">>>>,
      <<<<"s", "a", ".m", "y", "u", "t", "t", "a">>, <<"S", "N">>>>,
      <<<<"a", "n">>, <<"A", "N">>>>,
      <<<<"a", "n", "g", "u", "t", "t", "a", "r", "a">>, <<"A", "N">>>>,
      <<<<"a", "\"n", "g", "u", "t", "t", "a", "r", "a">>, <<"A", "N">>>>,
      <<<<"d", "h", "p">>, <<"D", "h", "p">>>>,
      <<<<"d", "h", "a", "m", "m", "a", "p", "a", "d", "a">>, <<"D", "h", "p">>>>,
      <<<<"u", "d">>, <<"U", "d">>>>,
      <<<<"u", "d", "a", "n", "a">>, <<"U", "d">>>>,
      <<<<"u", "d", "aa", "n", "a">>, <<"U", "d">>>>,
      <<<<"i", "t">>, <<"I", "t">>>>,
      <<<<"i", "t", "i", "v", "u", "t", "t", "a", "k", "a">>, <<"I", "t">>>>,
      <<<<"s", "n", "p">>, <<"S", "n">>>>,
      <<<<"s", "u", "t", "t", "a", "n", "i", "p", "a", "t", "a">>, <<"S", "n">>>>,
      <<<<"s", "u", "t", "t", "a", "n", "i", "p", "aa", "t", "a">>, <<"S", "n">>>>,
      <<<<"t", "h", "a", "g">>, <<"T", "h", "a", "g">>>>,
      <<<<"t", "h", "e", "r", "a", "g", "a", "t", "h", "a">>, <<"T", "h", "a", "g">>>>,
      <<<<"t", "h", "e", "r", "a", "g", "aa", "t", "h", "aa">>, <<"T", "h", "a", "g">>>>,
      <<<<"t", "h", "i", "g">>, <<"T", "h", "i", "g">>>>,
      <<<<"t", "h", "e", "r", "i", "g", "a", "t", "h", "a">>, <<"T", "h", "i", "g">>>>,
      <<<<"t", "h", "e", "r", "ii", "g", "aa", "t", "h", "aa">>, <<"T", "h", "i", "g">>>>,
      <<<<"k", "h", "p">>, <<"K", "h", "p">>>>,
      <<<<"k", "h", "u", "d", "d", "a", "k", "a", "p", "a", "t", "h", "a">>, <<"K", "h", "p">>>>,
      <<<<"k", "h", "u", "d", "d", "a", "k", "a", "p", "aa", ".t", "h", "a">>, <<"K", "h", "p">>>>,
      <<<<"v", "v">>, <<"V", "v">>>>,
      <<<<"v", "i", "m", "a", "n", "a", "v", "a", "t", "t", "h", "u">>, <<"V", "v">>>>,
      <<<<"v", "i", "m", "aa", "n", "a", "v", "a", "t", "t", "h", "u">>, <<"V", "v">>>>,
      <<<<"p", "v">>, <<"P", "v">>>>,
      <<<<"p", "e", "t", "a", "v", "a", "t", "t", "h", "u">>, <<"P", "v">>>>,
      <<<<"j", "a">>, <<"J", "a">>>>,
      <<<<"j", "a", "t", "a", "k", "a">>, <<"J", "a">>>>,
      <<<<"j", "aa", "t", "a", "k", "a">>, <<"J", "a">>>>>>

SUTTA_NAME_TO_REF ==
    <<<<<<"d", "h", "a", "m", "m", "a", "c", "a", "k", "k", "a", "p", "p", "a", "v", "a", "t", "t", "a", "n", "a">>,
        <<"S", "N", " ", "5", "6", ".", "1", "1">>>>,
      <<<<"a", "n", "a", "t", "t", "a", "l", "a", "k", "k", "h", "a", ".n", "a">>,
        <<"S", "N", " ", "2", "2", ".", "5", "9">>>>,
      <<<<"a", "n", "a", "t", "t", "a", "l", "a", "k", "k", "h", "a", "n", "a">>,
        <<"S", "N", " ", "2", "2", ".", "5", "9">>>>,
      <<<<"aa", "d", "i", "t", "t", "a", "p", "a", "r", "i", "y", "aa", "y", "a">>,
        <<"S", "N", " ", "3", "5", ".", "2", "8">>>>,
      <<<<"a", "d", "i", "t", "t", "a", "p", "a", "r", "i", "y", "a", "y", "a">>,
        <<"S", "N", " ", "3", "5", ".", "2", "8">>>>,
      <<<<"s", "a", "t", "i", "p", "a", ".t", ".t", "h", "aa", "n", "a">>,
        <<"M", "N", " ", "1", "0">>>>,
      <<<<"s", "a", "t", "i", "p", "a", "t", "t", "h", "a", "n", "a">>,
        <<"M", "N", " ", "1", "0">>>>,
      <<<<"m", "a", "h", "aa", "s", "a", "t", "i", "p", "a", ".t", ".t", "h", "aa", "n", "a">>,
        <<"D", "N", " ", "2", "2">>>>,
      <<<<"m", "a", "h", "a", "s", "a", "t", "i", "p", "a", "t", "t", "h", "a", "n", "a">>,
        <<"D", "N", " ", "2", "2">>>>,
      <<<<"k", "aa", "l", "aa", "m", "a">>,
        <<"A", "N", " ", "3", ".", "6", "5">>>>,
      <<<<"k", "a", "l", "a", "m", "a">>,
        <<"A", "N", " ", "3", ".", "6", "5">>>>,
      <<<<"s", "i", "g", "aa", "l", "o", "v", "aa", "d", "a">>,
        <<"D", "N", " ", "3", "1">>>>,
      <<<<"s", "i", "g", "a", "l", "o", "v", "a", "d", "a">>,
        <<"D", "N", " ", "3", "1">>>>,
      <<<<"m", "a", "h", "aa", "p", "a", "r", "i", "n", "i", "b", "b", "aa", "n", "a">>,
        <<"D", "N", " ", "1", "6">>>>,
      <<<<"m", "a", "h", "a", "p", "a", "r", "i", "n", "i", "b", "b", "a", "n", "a">>,
        <<"D", "N", " ", "1", "6">>>>,
      <<<<"k", "a", "k", "a", "c", "uu", "p", "a", "m", "a">>,
        <<"M", "N", " ", "2", "1">>>>,
      <<<<"k", "a", "k", "a", "c", "u", "p", "a", "m", "a">>,
        <<"M", "N", " ", "2", "1">>>>,
      <<<<"aa", "n", "aa", "p", "aa", "n", "a", "s", "a", "t", "i">>,
        <<"M", "N", " ", "1", "1", "8">>>>,
      <<<<"a", "n", "a", "p", "a", "n", "a", "s", "a", "t", "i">>,
        <<"M", "N", " ", "1", "1", "8">>>>>>

\* dict.get(key, default) of a dict written as its items in insertion order
Get(dict, key, default) ==
    IF \E i \in DOMAIN dict : dict[i][1] = key
    THEN dict[CHOOSE i \in DOMAIN dict : dict[i][1] = key][2]
    ELSE default

\* unicodedata.normalize("NFKD", s) without the combining characters
_strip_diacritics(s) == [i \in DOMAIN s |-> IF s[i] \in DOMAIN PlainOf THEN PlainOf[s[i]] ELSE s[i]]

\* Mutant: the test for the explicit "Sn" is missing.
_normalize_nikaya_token_no_explicit_sn(raw) ==
    IF raw = <<>> THEN raw
    ELSE IF lower(raw) = <<"s", "n">> THEN <<"S", "N">>
    ELSE IF Truthy(Get(NIKAYA_ABBREV, lower(raw), None))
         THEN Get(NIKAYA_ABBREV, lower(raw), None)
    ELSE upper(raw)

_normalize_nikaya_token(raw) ==
    IF raw = <<>> THEN raw
    ELSE IF raw = <<"S", "n">> THEN <<"S", "n">>
    ELSE IF lower(raw) = <<"s", "n">> THEN <<"S", "N">>
    ELSE IF Truthy(Get(NIKAYA_ABBREV, lower(raw), None))
         THEN Get(NIKAYA_ABBREV, lower(raw), None)
    ELSE upper(raw)

\* f"{nikaya} {num1}.{num2}" if num2 else f"{nikaya} {num1}"
Citation(nikaya, num1, num2) ==
    IF num2 # <<>> THEN nikaya \o <<" ">> \o num1 \o <<".">> \o num2
    ELSE nikaya \o <<" ">> \o num1

\* _extract_citations(text), as the set it sorts and returns
citations_of(text) ==
    LET standard == finditer(NIKAYA_REF_RE, text, 1)
        books == finditer(BOOK_REF_RE, text, 1)
        full == finditer(FULL_NIKAYA_RE, text, 1)
        named == finditer(SUTTA_NAME_RE, text, 1)
        t_norm == lower(_strip_diacritics(text))
    IN  {Citation(_normalize_nikaya_token(standard[k].g1), standard[k].num1,
                  standard[k].num2) : k \in DOMAIN standard}
        \cup
        {Citation(Get(NIKAYA_ABBREV, lower(books[k].g1), books[k].g1), books[k].num1,
                  books[k].num2) : k \in DOMAIN books}
        \cup
        {Citation(Get(NIKAYA_ABBREV, lower(full[k].g1),
                      SubSeq(upper(lower(full[k].g1)), 1, 2)),
                  full[k].num1, full[k].num2) : k \in DOMAIN full}
        \cup
        {Get(SUTTA_NAME_TO_REF, lower(named[k].g1), None) :
            k \in {j \in DOMAIN named :
                      Truthy(Get(SUTTA_NAME_TO_REF, lower(named[j].g1), None))}}
        \cup
        {SUTTA_NAME_TO_REF[n][2] :
            n \in {j \in DOMAIN SUTTA_NAME_TO_REF :
                      LET name_norm == lower(_strip_diacritics(SUTTA_NAME_TO_REF[j][1]))
                      IN name_norm # <<>> /\ Contains(t_norm, name_norm)}}

_extract_citations(text) == IF text = <<>> THEN <<>> ELSE sorted(citations_of(text))

(***************************************************************************)
(* indexer.py: the collection of a PDF from where it lies                  *)
(***************************************************************************)
\* The tests of _infer_nikaya_from_path in their order: keyword and code.
PATH_KEYWORDS ==
    <<<<<<"d", "i", "g", "h", "a">>, <<"D", "N">>>>, <<<<"d", "i", "a", "l", "o", "g", "u", "e", "s">>, <<"D", "N">>>>, <<<<"m", "a", "j", "j", "h", "i", "m", "a">>, <<"M", "N">>>>,
      <<<<"s", "a", "m", "y", "u", "t", "t", "a">>, <<"S", "N">>>>, <<<<"a", "n", "g", "u", "t", "t", "a", "r", "a">>, <<"A", "N">>>>, <<<<"d", "h", "a", "m", "m", "a", "p", "a", "d", "a">>, <<"D", "h", "p">>>>,
      <<<<"u", "d", "a", "n", "a">>, <<"U", "d">>>>, <<<<"i", "t", "i", "v", "u", "t", "t", "a", "k", "a">>, <<"I", "t">>>>, <<<<"s", "u", "t", "t", "a", "n", "i", "p", "a", "t", "a">>, <<"S", "n">>>>,
      <<<<"t", "h", "e", "r", "a", "g", "a", "t", "h", "a">>, <<"T", "h", "a", "g">>>>, <<<<"t", "h", "e", "r", "i", "g", "a", "t", "h", "a">>, <<"T", "h", "i", "g">>>>,
      <<<<"k", "h", "u", "d", "d", "a", "k", "a", "p", "a", "t", "h", "a">>, <<"K", "h", "p">>>>, <<<<"v", "i", "m", "a", "n", "a", "v", "a", "t", "t", "h", "u">>, <<"V", "v">>>>,
      <<<<"p", "e", "t", "a", "v", "a", "t", "t", "h", "u">>, <<"P", "v">>>>, <<<<"j", "a", "t", "a", "k", "a">>, <<"J", "a">>>>>>

\* The code of the first test that succeeds on combined, or None.
first_keyword(combined) ==
    LET hits == SelectSeq(PATH_KEYWORDS, LAMBDA test : Contains(combined, test[1]))
    IN IF hits = <<>> THEN None ELSE hits[1][2]

\* Mutant: the call of .lower() is missing.
_infer_nikaya_from_path_as_written(folder_path, pdf_name) ==
    first_keyword(folder_path \o <<"/">> \o pdf_name)

_infer_nikaya_from_path(folder_path, pdf_name) ==
    first_keyword(lower(folder_path \o <<"/">> \o pdf_name))

(***************************************************************************)
(* synthesizer.py                                                          *)
(***************************************************************************)
\* The returned text is a sequence of pieces: a fixed message (k = "lit",
\* with the interpolated count n), the text llm.invoke returned (k = "llm")
\* or one line "- <path> - p.<page>" of the source list (k = "src").
Lit(name, n) == [k |-> "lit", s |-> <<name>>, n |-> n, path |-> <<>>]
Gen(answer) == [k |-> "llm", s |-> answer, n |-> 0, path |-> <<>>]
Src(path, page) == [k |-> "src", s |-> <<>>, n |-> page, path |-> path]

RECURSIVE lstrip(_)
lstrip(s) == IF s # <<>> /\ Head(s) \in Whitespace THEN lstrip(Tail(s)) ELSE s

RECURSIVE rstrip(_)
rstrip(s) ==
    IF s # <<>> /\ s[Len(s)] \in Whitespace
    THEN rstrip(SubSeq(s, 1, Len(s) - 1))
    ELSE s

strip(s) == rstrip(lstrip(s))

\* str.replace("\n", " ")
replace_newlines(s) == [i \in DOMAIN s |-> IF s[i] = "\n" THEN " " ELSE s[i]]

\* h.get("relpath") or h.get("pdf_name")
hit_path(h) == IF Truthy(h.relpath) THEN h.relpath ELSE h.pdf_name

_format_context(hits) ==
    [i \in DOMAIN hits |->
        [header |-> <<i, hit_path(hits[i]), hits[i].page>>,
         body |-> replace_newlines(strip(hits[i].text))]]

\* Mutant: the seen-set is not consulted, every hit gets a line.
uniq_sources_every_hit(hits, seen) ==
    [i \in DOMAIN hits |-> Src(hit_path(hits[i]), hits[i].page)]

\* The lines of the source list: one per signature (path, page), in the
\* order in which the signatures are first seen.
RECURSIVE uniq_sources(_, _)
uniq_sources(hits, seen) ==
    IF hits = <<>> THEN <<>>
    ELSE LET h == Head(hits)
             sig == <<hit_path(h), h.page>>
         IN IF sig \in seen
            THEN uniq_sources(Tail(hits), seen)
            ELSE <<Src(sig[1], sig[2])>> \o uniq_sources(Tail(hits), seen \cup {sig})

_format_sources(hits) == <<Lit("Sources:", 0)>> \o uniq_sources(hits, {})

\* Mutant: the guard for an empty list of hits is missing.
synthesize_no_empty_guard(query, hits, answer) ==
    IF Len(hits) < MIN_HITS
    THEN [text |-> <<Lit("I found only {n} potentially relevant passage(s)", Len(hits))>>
                   \o _format_sources(hits)
                   \o <<Lit("Try rephrasing your question", 0)>>,
          prompts |-> <<>>]
    ELSE [text |-> <<Gen(answer)>> \o _format_sources(hits),
          prompts |-> <<[sys |-> "SYS", question |-> query,
                         ctx |-> _format_context(hits)]>>]

\* Mutant: the threshold test is len(hits) <= MIN_HITS.
synthesize_off_by_one(query, hits, answer) ==
    IF hits = <<>>
    THEN [text |-> <<Lit("I couldn't find relevant passages", 0)>>,
          prompts |-> <<>>]
    ELSE IF Len(hits) <= MIN_HITS
    THEN [text |-> <<Lit("I found only {n} potentially relevant passage(s)", Len(hits))>>
                   \o _format_sources(hits)
                   \o <<Lit("Try rephrasing your question", 0)>>,
          prompts |-> <<>>]
    ELSE [text |-> <<Gen(answer)>> \o _format_sources(hits),
          prompts |-> <<[sys |-> "SYS", question |-> query,
                         ctx |-> _format_context(hits)]>>]

\* synthesize(query, hits); answer is what llm.invoke returns when called.
synthesize(query, hits, answer) ==
    IF hits = <<>>
    THEN [text |-> <<Lit("I couldn't find relevant passages", 0)>>,
          prompts |-> <<>>]
    ELSE IF Len(hits) < MIN_HITS
    THEN [text |-> <<Lit("I found only {n} potentially relevant passage(s)", Len(hits))>>
                   \o _format_sources(hits)
                   \o <<Lit("Try rephrasing your question", 0)>>,
          prompts |-> <<>>]
    ELSE [text |-> <<Gen(answer)>> \o _format_sources(hits),
          prompts |-> <<[sys |-> "SYS", question |-> query,
                         ctx |-> _format_context(hits)]>>]

synthesize_workbook_entry(topic, hits, answer) ==
    IF hits = <<>>
    THEN [text |-> <<Lit("## No Passages Found", 0)>>, prompts |-> <<>>]
    ELSE IF Len(hits) < MIN_HITS
    THEN [text |-> <<Lit("## Limited Sources: Only {n} passage(s) found", Len(hits))>>
                   \o _format_sources(hits),
          prompts |-> <<>>]
    ELSE [text |-> <<Gen(answer)>> \o _format_sources(hits),
          prompts |-> <<[sys |-> "WORKBOOK_SYS", question |-> topic,
                         ctx |-> _format_context(hits)]>>]

(***************************************************************************)
(* Python lists, dicts and str methods used by the planner and retriever   *)
(***************************************************************************)
\* s[:n] and s[n:]
Take(s, n) == SubSeq(s, 1, IF n < Len(s) THEN n ELSE Len(s))
Drop(s, n) == SubSeq(s, n + 1, Len(s))

\* Mutant: the test "not in" is missing.
AppendNew_with_repeats(out, xs) == out \o xs

\* out, then each element of xs that is not yet in it (if x not in out: out.append(x))
RECURSIVE AppendNew(_, _)
AppendNew(out, xs) ==
    IF xs = <<>> THEN out
    ELSE AppendNew(IF Head(xs) \in Range(out) THEN out ELSE Append(out, Head(xs)), Tail(xs))

\* sep.join(parts)
RECURSIVE join(_, _)
join(sep, parts) ==
    IF parts = <<>> THEN <<>>
    ELSE IF Len(parts) = 1 THEN parts[1]
    ELSE parts[1] \o sep \o join(sep, Tail(parts))

\* str.split(): the maximal runs of non-whitespace
RECURSIVE split(_)
split(s) ==
    LET t == lstrip(s)
        n == CHOOSE k \in 0..Len(t) :
                 /\ \A i \in 1..k : ~IsSpace(t[i])
                 /\ (k = Len(t) \/ IsSpace(t[k + 1]))
    IN IF t = <<>> THEN <<>> ELSE <<Take(t, n)>> \o split(Drop(t, n))

\* str.replace(old, new) for one-character old and new
replace(s, old, new) ==
    IF new = <<>> THEN SelectSeq(s, LAMBDA c : c # old)
    ELSE [i \in DOMAIN s |-> IF s[i] = old THEN new[1] ELSE s[i]]

\* A dict with str keys is a function; {} and d[k] = v
EmptyDict == [x \in {} |-> <<>>]
SetItem(d, k, v) == [x \in DOMAIN d \cup {k} |-> IF x = k THEN v ELSE d[x]]

\* d.get(k, default)
get(d, k, default) == IF k \in DOMAIN d THEN d[k] ELSE default

\* A dict with arbitrary keys is its items in insertion order; d[k] = v
Put(dict, key, value) ==
    IF \E i \in DOMAIN dict : dict[i][1] = key
    THEN [i \in DOMAIN dict |-> IF dict[i][1] = key THEN <<key, value>> ELSE dict[i]]
    ELSE Append(dict, <<key, value>>)

\* sorted(s, key=...) and list.sort(key=...): stable, Before(a, b) says that
\* a's key is less than b's; an element's place is one more than the number
\* of elements that go before it
StableSort(s, Before(_, _)) ==
    LET place(i) == 1 + Cardinality({j \in DOMAIN s :
                                       \/ Before(s[j], s[i])
                                       \/ (j < i /\ ~Before(s[i], s[j]))})
    IN [p \in DOMAIN s |-> s[CHOOSE i \in DOMAIN s : place(i) = p]]

RECURSIVE Sum(_)
Sum(s) == IF s = <<>> THEN 0 ELSE Head(s) + Sum(Tail(s))

(***************************************************************************)
(* alias_loader.py                                                         *)
(***************************************************************************)
\* load_aliases, lines 60-66: alias_to_id from id_to_aliases (both as items)
RECURSIVE alias_keys(_, _, _)
alias_keys(alias_to_id, cid, names) ==
    IF names = <<>> THEN alias_to_id
    ELSE LET k1 == strip(lower(Head(names)))
             k2 == _strip_diacritics(k1)
         IN alias_keys(Put(Put(alias_to_id, k1, cid), k2, cid), cid, Tail(names))

RECURSIVE alias_to_id_of(_, _)
alias_to_id_of(alias_to_id, items) ==
    IF items = <<>> THEN alias_to_id
    ELSE alias_to_id_of(alias_keys(alias_to_id, Head(items)[1],
                                   Append(Head(items)[2], Head(items)[1])),
                        Tail(items))

load_aliases(id_to_aliases) ==
    [id_to_aliases |-> id_to_aliases, alias_to_id |-> alias_to_id_of(<<>>, id_to_aliases)]

\* Mutant: the test len(found) >= top_n is missing.
TakeNew_without_limit(found, cids, top_n) == found \o cids

\* found, then the new ids of cids until found has top_n of them
RECURSIVE TakeNew(_, _, _)
TakeNew(found, cids, top_n) ==
    IF cids = <<>> THEN found
    ELSE IF Head(cids) \in Range(found) THEN TakeNew(found, Tail(cids), top_n)
    ELSE IF Len(found) + 1 >= top_n THEN Append(found, Head(cids))
    ELSE TakeNew(Append(found, Head(cids)), Tail(cids), top_n)

\* The ids of the keys contained in the lower-cased text or in its plain form
contained_ids(text, alias_to_id) ==
    LET q_raw == lower(text)
        q_plain == _strip_diacritics(q_raw)
        held == SelectSeq(alias_to_id,
                          LAMBDA item : Contains(q_raw, item[1]) \/ Contains(q_plain, item[1]))
    IN [i \in DOMAIN held |-> held[i][2]]

\* fuzzy_ids(text, alias_to_id, top_n, threshold); process says whether
\* rapidfuzz is installed and which keys process.extract scores at or above
\* the threshold, best first
fuzzy_ids(text, alias_to_id, top_n, process) ==
    LET found == TakeNew(<<>>, contained_ids(text, alias_to_id), top_n)
        scored == SelectSeq(process.matches,
                            LAMBDA key : Truthy(Get(alias_to_id, key, None)))
    IN IF found # <<>> /\ Len(found) >= top_n THEN found
       ELSE IF ~process.installed THEN found
       ELSE TakeNew(found, [i \in DOMAIN scored |-> Get(alias_to_id, scored[i], None)], top_n)

(***************************************************************************)
(* planner.py                                                              *)
(***************************************************************************)
SUTTA_ID_CODES ==
    <<<<"D", "N">>, <<"M", "N">>, <<"S", "N">>, <<"A", "N">>, <<"K", "N">>, <<"S", "n">>, <<"K", "h", "p">>, <<"D", "h", "p">>, <<"T", "h", "a", "g">>, <<"T", "h", "i", "g">>>>

IdSeps == {"-", " ", "\n", ".", ":"}

\* \d+ at p: the positions after it
DigitsPlus(t, p) ==
    [k \in DOMAIN DownTo(DigitRun(t, p, Len(t)), 1) |-> p + DownTo(DigitRun(t, p, Len(t)), 1)[k]]

\* \s*[-\s\.:]?\s*\d+(?:\.\d+)?)\b from p
SuttaIdTail(t, p) ==
    LET starts == FlatMap(LAMBDA a : FlatMap(LAMBDA b : Spaces(t, b),
                                             OptionalSep(t, a, IdSeps)),
                          Spaces(t, p))
        ends(q) == FlatMap(LAMBDA e : (IF At(t, e) = "." THEN DigitsPlus(t, e + 1) ELSE <<>>)
                                      \o <<e>>,
                           DigitsPlus(t, q))
        all == FlatMap(LAMBDA q : FlatMap(LAMBDA e : <<Partial(e, <<>>, <<>>)>>, ends(q)),
                       starts)
    IN SelectFirst(all, LAMBDA m : WordBoundary(t, m.pos), NoMatch)

SUTTA_ID_RE(t, i) == Alternation(t, i, SUTTA_ID_CODES, LAMBDA p : SuttaIdTail(t, p))

_norm_id(token) ==
    LET t == replace(replace(replace(upper(token), " ", <<>>), ":", <<".">>), "-", <<>>)
        code == Take(t, 2)
        rest == Drop(t, 2)
    IN IF rest # <<>> /\ IsDigit(rest[1]) THEN code \o <<" ">> \o rest ELSE code \o rest

_scan_ids(q) ==
    LET found == finditer(SUTTA_ID_RE, q, 1)
    IN AppendNew(<<>>, [k \in DOMAIN found |->
                           _norm_id(SubSeq(q, found[k].start, found[k].end - 1))])

ID_TO_ALIASES == load_aliases(alias_table).id_to_aliases
ALIAS_TO_ID == load_aliases(alias_table).alias_to_id

KhuddakaCodes == {<<"S", "n">>, <<"K", "h", "p">>, <<"D", "h", "p">>, <<"T", "h", "a", "g">>, <<"T", "h", "i", "g">>}
NikayaCodes == {<<"S", "N">>, <<"M", "N">>, <<"D", "N">>, <<"A", "N">>, <<"K", "N">>}
AbhidhammaWords ==
    {<<"a", "b", "h", "i", "d", "h", "a", "m", "m", "a">>, <<"p", "a", ".t", ".t", "h", "aa", "n", "a">>, <<"p", "a", "t", "t", "h", "a", "n", "a">>,
     <<"d", "h", "a", "m", "m", "a", "s", "a", "\"n", "g", "a", ".n", "ii">>,
     <<"d", "h", "a", "m", "m", "a", "s", "a", "n", "g", "a", "n", "i">>}
SuttaWords == {<<"s", "u", "t", "t", "a">>, <<"s", "uu", "t", "t", "a">>, <<"s", "e", "r", "m", "o", "n">>, <<"d", "i", "s", "c", "o", "u", "r", "s", "e">>}

\* plan_query, step 3 of the constraints: the nikaya of the first target
nikaya_constraint(constraints, ids) ==
    IF ids = <<>> THEN constraints
    ELSE LET code == split(ids[1])[1]
         IN IF code \in KhuddakaCodes THEN SetItem(constraints, "nikaya", <<"K", "N">>)
            ELSE IF code \in NikayaCodes THEN SetItem(constraints, "nikaya", code)
            ELSE IF lower(code) \in {lower(c) : c \in NikayaCodes}
                 THEN SetItem(constraints, "nikaya", upper(code))
            ELSE constraints

basket_constraint(constraints, q_lc) ==
    IF Contains(q_lc, <<"v", "i", "n", "a", "y", "a">>) THEN SetItem(constraints, "basket", <<"v", "i", "n", "a", "y", "a">>)
    ELSE IF \E x \in AbhidhammaWords : Contains(q_lc, x)
         THEN SetItem(constraints, "basket", <<"a", "b", "h", "i", "d", "h", "a", "m", "m", "a">>)
    ELSE IF \E x \in SuttaWords : Contains(q_lc, x)
         THEN SetItem(constraints, "basket", <<"s", "u", "t", "t", "a">>)
    ELSE constraints

plan_query(q) ==
    LET q_stripped == strip(q)
        q_lc == lower(q_stripped)
        q_plain == _strip_diacritics(q_lc)
        alias_ids == AppendNew(AppendNew(<<>>, contained_ids(q_stripped, ALIAS_TO_ID)),
                               fuzzy_ids(q_stripped, ALIAS_TO_ID, 3, rapidfuzz))
        ids == AppendNew(_scan_ids(q_stripped), alias_ids)
        seeds == <<q_stripped>>
                 \o (IF q_plain # q_lc THEN <<_strip_diacritics(q_stripped)>> ELSE <<>>)
        known == FlatMap(LAMBDA sid : Get(ID_TO_ALIASES, sid, <<>>), ids)
    IN [original |-> q_stripped,
        query |-> q_stripped,
        search_terms |-> AppendNew(seeds, known),
        constraints |-> basket_constraint(nikaya_constraint(EmptyDict, ids), q_lc),
        canonical_targets |-> ids,
        require_citations |-> TRUE]

(***************************************************************************)
(* retriever.py                                                            *)
(***************************************************************************)
\* A passage of the collection, with the metadata build_index gives it.
Document(text, pdf_name, page, span_id, relpath, basket, nikaya, citations) ==
    [page_content |-> text,
     metadata |-> [pdf_name |-> pdf_name, page |-> page, span_id |-> span_id,
                   relpath |-> relpath, basket |-> basket, nikaya |-> nikaya,
                   citations |-> citations]]

\* build_index keeps the chunks of at least MIN_CHUNK_LEN characters (line
\* 433) and hands them to the store in batches of BATCH_SIZE (lines 459-469).
MIN_CHUNK_LEN == 50
BATCH_SIZE == 50

\* A text followed by as many full stops as make it n characters long, and as
\* make it a chunk build_index keeps.
ChunkOf(text, n) == text \o [i \in 1..(n - Len(text)) |-> "."]
Passage(text) == ChunkOf(text, MIN_CHUNK_LEN)

\* The collection: two pages of one file, the same file name in a second
\* folder (another translation), a vinaya file and a second sutta file.
Corpus ==
    <<Document(Passage(<<"a", "l", "l", " ", "b", "u", "r", "n", "s">>), <<"s", "n", ".", "p", "d", "f">>, 1, <<"p", "1", "_", "c", "1">>, <<"s", "u", "t", "t", "a", "/", "s", "n", ".", "p", "d", "f">>, <<"s", "u", "t", "t", "a">>, <<"S", "N">>,
               <<"S", "N", " ", "3", "5", ".", "2", "8">>),
      Document(Passage(<<"e", "y", "e", " ", "b", "u", "r", "n", "s">>), <<"s", "n", ".", "p", "d", "f">>, 2, <<"p", "2", "_", "c", "1">>, <<"s", "u", "t", "t", "a", "/", "s", "n", ".", "p", "d", "f">>, <<"s", "u", "t", "t", "a">>, <<"S", "N">>,
               <<"S", "N", " ", "3", "5", ".", "2", "8", ",", "S", "N", " ", "3", "5", ".", "2", "9">>),
      Document(Passage(<<"A", "l", "l", " ", "i", "s", " ", "a", "f", "l", "a", "m", "e">>), <<"s", "n", ".", "p", "d", "f">>, 1, <<"p", "1", "_", "c", "1">>, <<"s", "u", "t", "t", "a", "/", "a", "l", "t", "/", "s", "n", ".", "p", "d", "f">>, <<"s", "u", "t", "t", "a">>,
               <<"S", "N">>, <<"S", "N", " ", "3", "5", ".", "2", "8">>),
      Document(Passage(<<"a", " ", "r", "u", "l", "e">>), <<"v", "i", "n", ".", "p", "d", "f">>, 1, <<"p", "1", "_", "c", "1">>, <<"v", "i", "n", "a", "y", "a", "/", "v", "i", "n", ".", "p", "d", "f">>, <<"v", "i", "n", "a", "y", "a">>, <<>>,
               <<>>),
      Document(Passage(<<"m", "i", "n", "d", "f", "u", "l">>), <<"M", "n", ".", "p", "d", "f">>, 3, <<"p", "3", "_", "c", "2">>, <<"s", "u", "t", "t", "a", "/", "M", "n", ".", "p", "d", "f">>, <<"s", "u", "t", "t", "a">>, <<"M", "N">>,
               <<"M", "N", " ", "1", "0">>)>>

\* The place of a passage in the corpus, by its text.
CorpusIndex(doc) == CHOOSE i \in DOMAIN Corpus : Corpus[i].page_content = doc.page_content

\* _reciprocal_rank_fusion's k, the length of its content key, and the basket
\* bonus in hundredths.
RRF_K == 60
KEY_LEN == 200
BASKET_BONUS == 10
RAG_MIN_NEEDED == 4

\* 1.0 / (k + rank + 1), rank from 0, as a multiple of 1 / RankScale: the
\* scale is the product of the denominators a list of the corpus can reach.
RECURSIVE Product(_, _)
Product(lo, hi) == IF lo > hi THEN 1 ELSE lo * Product(lo + 1, hi)
RankScale == Product(RRF_K + 1, RRF_K + Len(Corpus))
\* Mutant: every place of a list counts as the first.
rrf_score_without_rank(rank) == RankScale \div (RRF_K + 1)

rrf_score(rank) == RankScale \div (RRF_K + rank + 1)

\* _tokenize(text)
_tokenize(text) == split(lower(text))

\* _build_bm25_index(db): the non-empty passages of the collection
_build_bm25_index == SelectSeq(store, LAMBDA d : d.page_content # <<>>)

\* _get_bm25_index(db): the documents of the index, and the index in memory
\* and the cache file after the call
_get_bm25_index(mem, cache) ==
    IF mem # None THEN [docs |-> mem, mem |-> mem, cache |-> cache]
    ELSE IF cache # None THEN [docs |-> cache, mem |-> cache, cache |-> cache]
    ELSE [docs |-> _build_bm25_index, mem |-> _build_bm25_index,
          cache |-> _build_bm25_index]

\* _bm25_search(query, db, k): scores are bm25.get_scores, which is 0 for
\* every passage when the query has no token
_bm25_search(query, docs, k) ==
    LET score(i) == IF _tokenize(query) = <<>> THEN 0
                    ELSE backend.bm25_scores[CorpusIndex(docs[i])]
        top_indices == Take(StableSort([i \in DOMAIN docs |-> i],
                                       LAMBDA a, b : score(a) > score(b)), k)
        positive == SelectSeq(top_indices, LAMBDA i : score(i) > 0)
    IN [j \in DOMAIN positive |-> docs[positive[j]]]

_citation_search(target_refs, docs) ==
    IF ~Truthy(target_refs) THEN <<>>
    ELSE SelectSeq(docs, LAMBDA doc :
            /\ Truthy(doc.metadata.citations)
            /\ \E ref \in Range(target_refs) :
                  Contains(replace(upper(doc.metadata.citations), " ", <<>>),
                           replace(upper(ref), " ", <<>>)))

\* Every (key, document, score) the two loops of _reciprocal_rank_fusion visit
rrf_entries(results_lists) ==
    FlatMap(LAMBDA results :
                [rank \in DOMAIN results |->
                    [key |-> Take(results[rank].page_content, KEY_LEN),
                     doc |-> results[rank],
                     score |-> rrf_score(rank - 1)]],
            results_lists)

_reciprocal_rank_fusion(results_lists) ==
    LET entries == rrf_entries(results_lists)
        keys == AppendNew(<<>>, [i \in DOMAIN entries |-> entries[i].key])
        doc_objects(key) == SelectFirst(entries, LAMBDA e : e.key = key, None).doc
        doc_scores(key) ==
            Sum([i \in DOMAIN entries |->
                    IF entries[i].key = key THEN entries[i].score ELSE 0])
        sorted_keys == StableSort(keys, LAMBDA a, b : doc_scores(a) > doc_scores(b))
    IN [i \in DOMAIN sorted_keys |-> doc_objects(sorted_keys[i])]

\* _rerank(query, docs, top_n): scores are reranker.predict
_rerank(query, docs, top_n) ==
    IF docs = <<>> THEN docs
    ELSE Take(StableSort(docs, LAMBDA a, b : backend.rerank_scores[CorpusIndex(a)]
                                             > backend.rerank_scores[CorpusIndex(b)]),
              top_n)

_score_bias(doc, basket_hint) ==
    IF Truthy(basket_hint) /\ doc.metadata.basket = basket_hint THEN BASKET_BONUS ELSE 0

\* Mutant: a name that was seen is kept again.
dedupe_keeps_seen(docs, seen_names) == docs

\* The loop of _dedupe_by_translation over the sorted documents
RECURSIVE dedupe(_, _)
dedupe(docs, seen_names) ==
    IF docs = <<>> THEN <<>>
    ELSE LET name == lower(Head(docs).metadata.pdf_name)
         IN IF name \in seen_names THEN dedupe(Tail(docs), seen_names)
            ELSE <<Head(docs)>> \o dedupe(Tail(docs), seen_names \cup {name})

_dedupe_by_translation(docs) ==
    dedupe(StableSort(docs, LAMBDA a, b : StrLess(lower(a.metadata.pdf_name),
                                                  lower(b.metadata.pdf_name))),
           {})

\* db.max_marginal_relevance_search / db.similarity_search(q, k, filter): the
\* first k passages, in the order the backend ranks them, that pass the filter
vector_search(where_filter, k) ==
    Take(SelectSeq(FlatMap(LAMBDA c : SelectSeq(store, LAMBDA d : CorpusIndex(d) = c),
                           backend.vec_rank),
                   LAMBDA d : where_filter = None \/ d.metadata.basket = where_filter),
         k)

\* A call retrieve makes to a backend.
Call(fn, q, refs, where_filter, k) ==
    [fn |-> fn, q |-> q, refs |-> refs, filter |-> where_filter, k |-> k]

\* The calls of one vector search: the fallback follows a TypeError.
vector_calls(q, where_filter, k) ==
    <<Call("max_marginal_relevance_search", q, <<>>, where_filter, k)>>
    \o (IF backend.mmr_type_error /\ "vector" \notin backend.faults
        THEN <<Call("similarity_search", q, <<>>, where_filter, k)>> ELSE <<>>)

Returned(hits) == [kind |-> "returned", hits |-> hits, exc |-> "none"]
Raised(exc) == [kind |-> "raised", hits |-> <<>>, exc |-> exc]

\* The dict retrieve returns for a document.
HitOf(d) ==
    [text |-> d.page_content, pdf_name |-> d.metadata.pdf_name, page |-> d.metadata.page,
     span_id |-> d.metadata.span_id, relpath |-> d.metadata.relpath,
     nikaya |-> d.metadata.nikaya, citations |-> d.metadata.citations, score |-> 0]

\* retrieve, lines 168-179: what the call reads from the plan
plan_args(p, k) ==
    LET basket_hint == get(p, "basket_hint", None)
        queries == IF Truthy(get(p, "query_terms", None)) THEN p["query_terms"] ELSE <<>>
    IN [basket_hint |-> basket_hint,
        target_refs |-> get(p, "targets", <<>>),
        q |-> IF queries # <<>> THEN join(<<" ", "|", " ">>, queries) ELSE <<>>,
        original_query |-> IF queries # <<>> THEN queries[1] ELSE <<>>,
        where_filter |-> IF Truthy(basket_hint) THEN basket_hint ELSE None,
        k |-> k,
        fetch_k |-> k * 4]

\* _reciprocal_rank_fusion(all_result_lists)[:fetch_k], the citation list twice
\* in front when it is not empty
fuse(citation_docs, semantic_docs, bm25_docs, fetch_k) ==
    Take(_reciprocal_rank_fusion(
             (IF citation_docs # <<>> THEN <<citation_docs, citation_docs>> ELSE <<>>)
             \o <<semantic_docs, bm25_docs>>),
         fetch_k)

\* retrieve, lines 226-234: docs_sorted, the reranked candidates after the
\* sort on the basket bias
bias_sorted(docs, a) ==
    LET reranked == IF docs # <<>> THEN _rerank(a.original_query, docs, a.k * 2) ELSE docs
    IN StableSort(reranked, LAMBDA x, y : _score_bias(x, a.basket_hint)
                                          > _score_bias(y, a.basket_hint))

\* retrieve, lines 226-252: rerank, bias sort, de-duplication and the cap
ranked_hits(docs, a) ==
    LET docs_dedup == Take(_dedupe_by_translation(bias_sorted(docs, a)), a.k)
    IN [i \in DOMAIN docs_dedup |-> HitOf(docs_dedup[i])]

\* What retrieve returns or raises, the backend calls it makes, and the BM25
\* index in memory and on disk after it: index1 and index2 are the index
\* after the citation search and after the keyword search, filtered and
\* widened the fused candidates with and without the metadata filter.
outcome(a, index1, index2, filtered, widened) ==
    LET cited == Truthy(a.target_refs)
        widen == Len(filtered) < RAG_MIN_NEEDED /\ a.where_filter # None
        citation_calls ==
            IF cited THEN <<Call("_citation_search", <<>>, a.target_refs, None, 0)>>
            ELSE <<>>
        bm25_call == <<Call("_bm25_search", a.original_query, <<>>, None, a.fetch_k)>>
        first_pass == citation_calls \o vector_calls(a.q, a.where_filter, a.fetch_k)
    IN IF cited /\ "citation" \in backend.faults
       THEN [out |-> Raised("BackendError"), calls |-> citation_calls, ranked |-> <<>>,
             mem |-> _bm25_docs, cache |-> BM25_CACHE]
       ELSE IF "vector" \in backend.faults
       THEN [out |-> Raised("BackendError"), calls |-> first_pass, ranked |-> <<>>,
             mem |-> index1.mem, cache |-> index1.cache]
       ELSE IF "bm25" \in backend.faults
       THEN [out |-> Raised("BackendError"), calls |-> first_pass \o bm25_call,
             ranked |-> <<>>, mem |-> index1.mem, cache |-> index1.cache]
       ELSE [out |-> Returned(ranked_hits(IF widen THEN widened ELSE filtered, a)),
             ranked |-> bias_sorted(IF widen THEN widened ELSE filtered, a),
             calls |-> first_pass \o bm25_call
                       \o (IF widen THEN vector_calls(a.q, None, a.fetch_k) \o bm25_call
                           ELSE <<>>),
             mem |-> index2.mem, cache |-> index2.cache]

\* retrieve, lines 198-224: the keyword search and the two fusions
after_bm25(a, index1, index2, citation_docs, bm25_docs) ==
    outcome(a, index1, index2,
            fuse(citation_docs, vector_search(a.where_filter, a.fetch_k), bm25_docs,
                 a.fetch_k),
            fuse(citation_docs, vector_search(None, a.fetch_k), bm25_docs, a.fetch_k))

after_citation(a, index1, index2) ==
    after_bm25(a, index1, index2,
               IF Truthy(a.target_refs) THEN _citation_search(a.target_refs, index1.docs)
               ELSE <<>>,
               _bm25_search(a.original_query, index2.docs, a.fetch_k))

\* retrieve, line 184: the citation search loads the BM25 index when it runs
with_index(a, index1) == after_citation(a, index1, _get_bm25_index(index1.mem, index1.cache))

retrieve(p, k) ==
    with_index(plan_args(p, k),
               IF Truthy(get(p, "targets", <<>>)) /\ "citation" \notin backend.faults
               THEN _get_bm25_index(_bm25_docs, BM25_CACHE)
               ELSE [docs |-> <<>>, mem |-> _bm25_docs, cache |-> BM25_CACHE])

(***************************************************************************)
(* indexer.py: build_index                                                 *)
(***************************************************************************)
DecimalDigits == <<"0", "1", "2", "3", "4", "5", "6", "7", "8", "9">>

\* str(n) of a natural number
RECURSIVE str(_)
str(n) == IF n < 10 THEN <<DecimalDigits[n + 1]>>
          ELSE str(n \div 10) \o <<DecimalDigits[(n % 10) + 1]>>

_basket_from_path(path) ==
    IF Contains(lower(path), <<"/", "v", "i", "n", "a", "y", "a">>) THEN <<"v", "i", "n", "a", "y", "a">>
    ELSE IF Contains(lower(path), <<"/", "a", "b", "h", "i", "d", "h", "a", "m", "m", "a">>) \/ Contains(lower(path), <<"/", "a", "b", "h", "i">>)
    THEN <<"a", "b", "h", "i", "d", "h", "a", "m", "m", "a">>
    ELSE <<"s", "u", "t", "t", "a">>

\* os.path.join(folder_path, name)
path_join(folder_path, name) ==
    IF folder_path = <<>> THEN name ELSE folder_path \o <<"/">> \o name

\* build_index, lines 431-454: the documents of one page of a PDF, whose
\* chunks are those _chunk_sentences and _truncate_chunk give for the page
page_documents(pdf, page_num, basket, nikaya) ==
    LET chunks == pdf.pages[page_num]
        kept == SelectSeq([i \in DOMAIN chunks |-> i],
                          LAMBDA i : Len(chunks[i]) >= MIN_CHUNK_LEN)
    IN [j \in DOMAIN kept |->
           Document(chunks[kept[j]], pdf.pdf_name, page_num,
                    <<"p">> \o str(page_num) \o <<"_", "c">> \o str(kept[j]),
                    path_join(pdf.folder_path, pdf.pdf_name), basket,
                    IF nikaya = None THEN <<>> ELSE nikaya,
                    join(<<",">>, _extract_citations(chunks[kept[j]])))]

\* build_index, lines 408-454: the documents of one PDF
pdf_documents(pdf) ==
    LET basket == _basket_from_path(pdf.folder_path)
        nikaya == _infer_nikaya_from_path(pdf.folder_path, pdf.pdf_name)
    IN FlatMap(LAMBDA page_num : page_documents(pdf, page_num, basket, nikaya),
               [page_num \in DOMAIN pdf.pages |-> page_num])

\* What the embedding backend says when it cannot be reached.
ConnectionError == <<"c", "o", "n", "n", "e", "c", "t", "i", "o", "n", " ", "r", "e", "f", "u", "s", "e", "d">>

\* vectordb.add_documents(docs): the texts are embedded before any is
\* stored, so a batch is stored whole or not at all; the store gives every
\* document a new id. The result is the collection after the call and the
\* message of the exception raised, or None.
add_documents(collection, docs) ==
    IF ~embedding.up THEN [store |-> collection, exc |-> ConnectionError]
    ELSE IF \E i \in DOMAIN docs : Len(docs[i].page_content) > embedding.limit
    THEN [store |-> collection, exc |-> embedding.message]
    ELSE [store |-> collection \o docs, exc |-> None]

\* The loop of _add_documents_safely, lines 367-371
RECURSIVE add_one_by_one(_, _)
add_one_by_one(collection, docs) ==
    IF docs = <<>> THEN collection
    ELSE add_one_by_one(add_documents(collection, <<Head(docs)>>).store, Tail(docs))

\* Mutant: a batch that fails is not retried.
_add_documents_safely_without_retry(collection, docs) ==
    IF add_documents(collection, docs).exc = None THEN add_documents(collection, docs)
    ELSE [store |-> collection, exc |-> None]

_add_documents_safely(collection, docs) ==
    IF add_documents(collection, docs).exc = None THEN add_documents(collection, docs)
    ELSE IF \/ Contains(lower(add_documents(collection, docs).exc), <<"c", "o", "n", "t", "e", "x", "t", " ", "l", "e", "n", "g", "t", "h">>)
            \/ Contains(lower(add_documents(collection, docs).exc), <<"i", "n", "p", "u", "t", " ", "l", "e", "n", "g", "t", "h">>)
    THEN [store |-> add_one_by_one(collection, docs), exc |-> None]
    ELSE add_documents(collection, docs)

\* The two flushing loops of build_index, lines 459-469: batches are added
\* while at least `least` documents wait; an exception ends the run.
RECURSIVE flush(_, _, _)
flush(collection, docs, least) ==
    IF Len(docs) < least THEN [store |-> collection, docs |-> docs, exc |-> None]
    ELSE IF _add_documents_safely(collection, Take(docs, BATCH_SIZE)).exc # None
    THEN [store |-> _add_documents_safely(collection, Take(docs, BATCH_SIZE)).store,
          docs |-> Drop(docs, BATCH_SIZE),
          exc |-> _add_documents_safely(collection, Take(docs, BATCH_SIZE)).exc]
    ELSE flush(_add_documents_safely(collection, Take(docs, BATCH_SIZE)).store,
               Drop(docs, BATCH_SIZE), least)

\* The loop of build_index over the PDFs, lines 407-469
RECURSIVE index_pdfs(_, _)
index_pdfs(flushed, pdfs) ==
    IF flushed.exc # None THEN flushed
    ELSE IF pdfs = <<>> THEN flush(flushed.store, flushed.docs, 1)
    ELSE index_pdfs(flush(flushed.store, flushed.docs \o pdf_documents(Head(pdfs)),
                          BATCH_SIZE),
                    Tail(pdfs))

\* build_index(data_dir): the collection after the run, and the exception
\* that ended it
build_index(collection, pdf_list) ==
    IF pdf_list = <<>> THEN [store |-> collection, docs |-> <<>>, exc |-> None]
    ELSE index_pdfs([store |-> collection, docs |-> <<>>, exc |-> None], pdf_list)

\* rebuild_bm25_index(): the cache file is removed, the index in memory is
\* dropped, and _get_bm25_index builds both again
rebuild_bm25_index == _get_bm25_index(None, None)

(***************************************************************************)
(* The environment of the planner and the retriever                        *)
(***************************************************************************)
\* The backend's answers to one query: the order in which the vector store
\* ranks its passages, the BM25 and cross-encoder scores of the passages of
\* the corpus, the phases whose backend call raises, and whether this
\* version of the store raises TypeError on a diversity search.
VecRanks == {<<1, 2, 3, 4, 5>>, <<5, 4, 3, 2, 1>>, <<3, 1, 4, 2, 5>>}
Bm25Scores == {<<0, 0, 0, 0, 0>>, <<2, 1, 2, 0, 0>>, <<1, 1, 0, 3, 2>>}
\* The cross-encoder scores are in hundredths, the unit of BASKET_BONUS.
RerankScores == {<<5, 4, 3, 2, 1>>, <<1, 3, 2, 50, 4>>, <<2, 2, 2, 2, 2>>}
Phases == {"citation", "vector", "bm25"}
\* No phase fails, one does, or all do.
Faults == {{}, Phases} \cup {{phase} : phase \in Phases}

Backends ==
    [vec_rank : VecRanks, bm25_scores : Bm25Scores, rerank_scores : RerankScores,
     faults : Faults, mmr_type_error : BOOLEAN]

NoResult == [kind |-> "none", hits |-> <<>>, exc |-> "none"]

\* The planner and the retriever while another component is exercised.
IdlePlanner ==
    /\ question = <<>>
    /\ alias_table = <<>>
    /\ rapidfuzz = [installed |-> FALSE, matches |-> <<>>]
    /\ plan = None
    /\ main_out = "none"

\* fuzzy_ids and _infer_nikaya_from_path while neither is called directly.
IdleUtilities ==
    /\ fuzzy_top_n = 3
    /\ fuzzy_out = <<>>
    /\ path_args = [folder_path |-> <<>>, pdf_name |-> <<>>]
    /\ path_ret = None

\* The helpers of the retriever while none is called directly.
IdleHelpers ==
    /\ helper_args = [fn |-> "none"]
    /\ helper_ret = <<>>

\* The indexer while build_index does not run.
IdleIndexer ==
    /\ data_dir = <<>>
    /\ embedding = [up |-> TRUE, limit |-> 0, message |-> <<>>]
    /\ build_log = <<>>

IdleRetriever ==
    /\ ret_k = 1
    /\ store = Corpus
    /\ _bm25_docs = None
    /\ BM25_CACHE = None
    /\ backend = [vec_rank |-> <<1, 2, 3, 4, 5>>, bm25_scores |-> <<0, 0, 0, 0, 0>>,
                  rerank_scores |-> <<5, 4, 3, 2, 1>>, faults |-> {},
                  mmr_type_error |-> FALSE]
    /\ ret_out = NoResult
    /\ ret_log = <<>>
    /\ ret_ranked = <<>>

(***************************************************************************)
(* The synthesizer's callers: app.py ask() and generate_workbook() hand    *)
(* over the question or topic and the hits retrieve returned.              *)
(***************************************************************************)
\* "What is the Fire Sermon?" and "craving", abbreviated.
Questions == {<<"F", "i", "r", "e", "?">>, <<"c", "r", "a", "v", "i", "n", "g">>}

LLMAnswers == {<<"a", "n", "s", "w", "e", "r">>, <<"s", "e", "e", " ", "M", "N", " ", "1", "0">>}

\* Hits as retrieve builds them (retriever.py, lines 240-252).  Paths and
\* span ids are not inspected character by character and are written as one
\* element.
Hit(text, pdf_name, page, span_id, relpath) ==
    [text |-> text, pdf_name |-> pdf_name, page |-> page, span_id |-> span_id,
     relpath |-> relpath, nikaya |-> <<>>, citations |-> <<>>, score |-> 0]

HitPool ==
    { Hit(<<" ", "a", "l", "l", "\n", "b", "u", "r", "n", "s", " ">>,
          <<"sn1.pdf">>, 1, <<"p1_c1">>, <<"sutta_pitaka/sn1.pdf">>),
      Hit(<<"e", "y", "e">>,
          <<"sn1.pdf">>, 1, <<"p1_c2">>, <<"sutta_pitaka/sn1.pdf">>),
      Hit(<<"e", "a", "r">>,
          <<"sn1.pdf">>, 2, <<"p2_c1">>, <<"sutta_pitaka/sn1.pdf">>),
      Hit(<<"s", "a", "w">>,
          <<"mn1.pdf">>, 1, <<"p1_c1">>, None) }

RECURSIVE SeqsUpTo(_, _)
SeqsUpTo(S, n) ==
    IF n = 0 THEN {<<>>}
    ELSE LET shorter == SeqsUpTo(S, n - 1)
         IN shorter \cup {Append(s, x) : s \in shorter, x \in S}

HitLists == SeqsUpTo(HitPool, MaxHits)

\* The state of the synthesizer while another component is exercised.
IdleSynth ==
    /\ syn_args = [query |-> <<>>, hits |-> <<>>]
    /\ llm_reply = <<>>
    /\ syn_ret = <<>>
    /\ llm_log = <<>>
    /\ MIN_HITS = 2

InitSynth ==
    /\ op = "init"
    /\ syn_args \in [query : Questions, hits : HitLists]
    /\ llm_reply \in LLMAnswers
    /\ syn_ret = <<>>
    /\ llm_log = <<>>
    /\ MIN_HITS \in 0..MaxMinHits
    /\ cit_in = [kind |-> "none"]
    /\ cit_out = <<>>
    /\ IdleUtilities
    /\ IdleHelpers
    /\ IdleIndexer
    /\ IdlePlanner
    /\ IdleRetriever

\* app.py ask(): return synthesize(q, hits)
Synthesize ==
    /\ op = "init"
    /\ LET r == synthesize(syn_args.query, syn_args.hits, llm_reply)
       IN /\ op' = "synthesize"
          /\ syn_ret' = r.text
          /\ llm_log' = r.prompts
    /\ UNCHANGED <<syn_args, llm_reply, MIN_HITS, citVars, planVars, retVars, utilVars, helperVars, indexVars>>

\* app.py generate_workbook(): return synthesize_workbook_entry(topic, hits)
SynthesizeWorkbookEntry ==
    /\ op = "init"
    /\ LET r == synthesize_workbook_entry(syn_args.query, syn_args.hits, llm_reply)
       IN /\ op' = "synthesize_workbook_entry"
          /\ syn_ret' = r.text
          /\ llm_log' = r.prompts
    /\ UNCHANGED <<syn_args, llm_reply, MIN_HITS, citVars, planVars, retVars, utilVars, helperVars, indexVars>>

(***************************************************************************)
(* The texts handed to _extract_citations: a short-code reference written  *)
(* with each separator, and a title of the catalog in each of its forms.   *)
(***************************************************************************)
Casings == {"asis", "lower", "upper", "capitalize", "alternate"}

\* How a short code is written: as the pattern spells it, in one case, with
\* the case of every letter swapped, or with a dotless i for each i.
CodeCasings == {"asis", "lower", "upper", "swapcase", "dotless"}

Recase(s, casing) ==
    CASE casing = "asis" -> s
      [] casing = "lower" -> lower(s)
      [] casing = "upper" -> upper(s)
      [] casing = "capitalize" ->
            [i \in DOMAIN s |-> IF i = 1 THEN upper_char(s[i]) ELSE lower_char(s[i])]
      [] casing = "alternate" ->
            [i \in DOMAIN s |-> IF i % 2 = 1 THEN upper_char(s[i]) ELSE lower_char(s[i])]
      [] casing = "swapcase" ->
            [i \in DOMAIN s |-> IF s[i] \in DOMAIN LowerOf THEN lower_char(s[i])
                                ELSE upper_char(s[i])]
      [] casing = "dotless" ->
            [i \in DOMAIN s |-> IF s[i] = "i" THEN DotlessI ELSE s[i]]

CodeSeparators == {<<>>, <<" ">>, <<".">>, <<":">>, <<"-">>}
SubSeparators == {<<" ">>, <<".">>, <<":">>, <<"-">>}
FirstNumbers == {<<"3">>, <<"3", "5">>, <<"1", "1", "8">>}
SubNumbers == {<<>>, <<"2">>, <<"2", "8">>}
SuttaSuffixes == {<<>>, <<" ", "S", "u", "t", "t", "a">>}

RefForms ==
    [kind : {"ref"}, name : Range(NIKAYA_REF_CODES), casing : CodeCasings,
     sep1 : CodeSeparators, num1 : FirstNumbers, sep2 : SubSeparators,
     num2 : SubNumbers, plain : {FALSE}, suffix : {<<>>}]

TitleForms ==
    [kind : {"title"}, name : {SUTTA_NAME_TO_REF[j][1] : j \in DOMAIN SUTTA_NAME_TO_REF},
     casing : Casings, sep1 : {<<>>}, num1 : {<<>>}, sep2 : {<<>>}, num2 : {<<>>},
     plain : BOOLEAN, suffix : SuttaSuffixes]

\* A text given letter by letter.
Verbatim(text) ==
    [kind |-> "verbatim", name |-> text, casing |-> "asis", sep1 |-> <<>>, num1 |-> <<>>,
     sep2 |-> <<>>, num2 |-> <<>>, plain |-> FALSE, suffix |-> <<>>]

TextOf(form) ==
    IF form.kind = "verbatim" THEN form.name
    ELSE IF form.kind = "ref"
    THEN Recase(form.name, form.casing) \o form.sep1 \o form.num1
         \o (IF form.num2 = <<>> THEN <<>> ELSE form.sep2 \o form.num2)
         \o form.suffix
    ELSE Recase((IF form.plain THEN _strip_diacritics(form.name) ELSE form.name)
                \o form.suffix, form.casing)

InitCite ==
    /\ op = "init"
    /\ cit_in \in {f \in RefForms : f.num2 # <<>> \/ f.sep2 = <<".">>} \cup TitleForms
    /\ cit_out = <<>>
    /\ IdleUtilities
    /\ IdleHelpers
    /\ IdleIndexer
    /\ IdleSynth
    /\ IdlePlanner
    /\ IdleRetriever

\* indexer.py build_index(): citations = _extract_citations(chunk)
ExtractCitations ==
    /\ op = "init"
    /\ op' = "_extract_citations"
    /\ cit_out' = _extract_citations(TextOf(cit_in))
    /\ UNCHANGED <<cit_in, synVars, planVars, retVars, utilVars, helperVars, indexVars>>

\* A reference of the list is the text of the next call, as when a passage
\* quotes the citation of another.
ExtractAgain ==
    /\ op = "_extract_citations"
    /\ op' = "again"
    /\ \E r \in Range(cit_out) :
            /\ cit_in' = Verbatim(r)
            /\ cit_out' = _extract_citations(r)
    /\ UNCHANGED <<synVars, planVars, retVars, utilVars, helperVars, indexVars>>

(***************************************************************************)
(* retrieve on its own: the plans its callers hand over carry the keys it  *)
(* reads (basket_hint, targets, query_terms), or lack them.                *)
(***************************************************************************)
DirectPlans ==
    [basket_hint : {None, <<"s", "u", "t", "t", "a">>, <<"v", "i", "n", "a", "y", "a">>},
     targets : {<<>>, <<<<"S", "N", " ", "3", "5", ".", "2", "8">>>>},
     query_terms : {<<<<"f", "i", "r", "e">>>>, <<<<"f", "i", "r", "e">>, <<"b", "u", "r", "n", "s">>>>}]
    \cup {[query_terms |-> <<>>]}

IndexStates == {<<None, None>>, <<None, Corpus>>, <<Corpus, Corpus>>}

InitRetrieve ==
    /\ op = "planned"
    /\ plan \in DirectPlans
    /\ ret_k \in 1..MaxK
    /\ store = Corpus
    /\ \E index \in IndexStates : _bm25_docs = index[1] /\ BM25_CACHE = index[2]
    /\ backend \in Backends
    /\ ret_out = NoResult
    /\ ret_log = <<>>
    /\ ret_ranked = <<>>
    /\ question = <<>>
    /\ alias_table = <<>>
    /\ rapidfuzz = [installed |-> FALSE, matches |-> <<>>]
    /\ main_out = "none"
    /\ IdleSynth
    /\ cit_in = [kind |-> "none"]
    /\ cit_out = <<>>
    /\ IdleUtilities
    /\ IdleHelpers
    /\ IdleIndexer

\* scripts/eval_retrieval.py: hits = retrieve(p, k=k)
Retrieve ==
    /\ op \in {"planned", "build_index", "rebuild_bm25_index"}
    /\ op' = "retrieved"
    /\ LET r == retrieve(plan, ret_k)
       IN /\ ret_out' = r.out
          /\ ret_log' = r.calls
          /\ ret_ranked' = r.ranked
          /\ _bm25_docs' = r.mem
          /\ BM25_CACHE' = r.cache
    /\ UNCHANGED <<ret_k, store, backend, planVars, synVars, citVars, utilVars, helperVars, indexVars>>

(***************************************************************************)
(* The pipeline: plan_query, retrieve and synthesize in sequence, and      *)
(* grg_local.py main().                                                    *)
(***************************************************************************)
PipelineQuestions == {<<"S", "N", " ", "3", "5", ".", "2", "8", "?">>, <<"f", "i", "r", "e", " ", "s", "e", "r", "m", "o", "n">>, <<" ", "v", "i", "n", "a", "y", "a", " ", "D", "h", "p", "-", "2", "1">>, <<"c", "r", "a", "v", "i", "n", "g">>}

AliasTables ==
    {<<>>,
     <<<<<<"S", "N", " ", "3", "5", ".", "2", "8">>, <<<<"F", "i", "r", "e", " ", "S", "e", "r", "m", "o", "n">>, <<"AA", "d", "i", "t", "t", "a">>>>>>>>}

FuzzyMatches ==
    {[installed |-> FALSE, matches |-> <<>>], [installed |-> TRUE, matches |-> <<>>],
     [installed |-> TRUE, matches |-> <<<<"f", "i", "r", "e", " ", "s", "e", "r", "m", "o", "n">>>>]}

PipelineBackends ==
    {b \in Backends : /\ b.bm25_scores = <<2, 1, 2, 0, 0>>
                      /\ b.faults \subseteq {"vector"}
                      /\ ~b.mmr_type_error}

InitPipeline ==
    /\ op = "init"
    /\ question \in PipelineQuestions
    /\ alias_table \in AliasTables
    /\ rapidfuzz \in FuzzyMatches
    /\ plan = None
    /\ main_out = "none"
    /\ ret_k \in 1..MaxK
    /\ store = Corpus
    /\ _bm25_docs = None
    /\ BM25_CACHE = None
    /\ backend \in PipelineBackends
    /\ ret_out = NoResult
    /\ ret_log = <<>>
    /\ ret_ranked = <<>>
    /\ syn_args = [query |-> <<>>, hits |-> <<>>]
    /\ llm_reply \in LLMAnswers
    /\ syn_ret = <<>>
    /\ llm_log = <<>>
    /\ MIN_HITS = 2
    /\ cit_in = [kind |-> "none"]
    /\ cit_out = <<>>
    /\ IdleUtilities
    /\ IdleHelpers
    /\ IdleIndexer

\* plan = plan_query(q)
PlanQuery ==
    /\ op = "init"
    /\ op' = "planned"
    /\ plan' = plan_query(question)
    /\ UNCHANGED <<question, alias_table, rapidfuzz, main_out, retVars, synVars, citVars, utilVars, helperVars, indexVars>>

\* app.py ask(): return synthesize(q, hits), for the hits retrieve returned
Answer ==
    /\ op = "retrieved"
    /\ ret_out.kind = "returned"
    /\ op' = "answered"
    /\ LET r == synthesize(question, ret_out.hits, llm_reply)
       IN /\ syn_args' = [query |-> question, hits |-> ret_out.hits]
          /\ syn_ret' = r.text
          /\ llm_log' = r.prompts
    /\ UNCHANGED <<llm_reply, MIN_HITS, planVars, retVars, citVars, utilVars, helperVars, indexVars>>

\* grg_local.py main(): the plan with the overrides of the command line, then
\* retrieve(plan, top_k=args.top_k), which raises TypeError because retrieve
\* has no parameter top_k.
Main ==
    /\ op = "init"
    /\ op' = "main"
    /\ \E basket \in {None, <<"v", "i", "n", "a", "y", "a">>}, nikaya \in {None, <<"K", "N">>}, no_citations \in BOOLEAN :
          LET p == plan_query(question)
              c1 == IF Truthy(basket) THEN SetItem(p.constraints, "basket", basket)
                    ELSE p.constraints
              c2 == IF Truthy(nikaya) THEN SetItem(c1, "nikaya", nikaya) ELSE c1
          IN plan' = [p EXCEPT !.constraints = c2,
                               !.require_citations = IF no_citations THEN FALSE ELSE @]
    /\ main_out' = "TypeError"
    /\ UNCHANGED <<question, alias_table, rapidfuzz, retVars, synVars, citVars, utilVars, helperVars, indexVars>>

(***************************************************************************)
(* plan_query and fuzzy_ids on their own: a question that cites one        *)
(* reference in each way of writing it, a question that mentions an alias  *)
(* of the table in each of its forms, and questions with category words.   *)
(***************************************************************************)
QuestionRefs ==
    {f \in [kind : {"ref"}, name : Range(SUTTA_ID_CODES), casing : {"asis", "lower"},
            sep1 : CodeSeparators, num1 : {<<"5">>, <<"3", "5">>},
            sep2 : {<<".">>, <<":">>, <<"-">>}, num2 : {<<>>, <<"2", "8">>},
            plain : {FALSE}, suffix : {<<>>, <<"?">>}] :
        f.num2 # <<>> \/ f.sep2 = <<".">>}

FireSermonTable ==
    <<<<<<"S", "N", " ", "3", "5", ".", "2", "8">>, <<<<"F", "i", "r", "e", " ", "S", "e", "r", "m", "o", "n">>, <<"AA", "d", "i", "t", "t", "a">>>>>>>>

\* Two ids whose aliases differ only by their diacritics.
FramesTable ==
    <<<<<<"M", "N", " ", "1", "0">>, <<<<"S", "a", "t", "i", "p", "a", ".t", ".t", "h", "aa", "n", "a">>>>>>,
      <<<<"D", "N", " ", "2", "2">>, <<<<"S", "a", "t", "i", "p", "a", "t", "t", "h", "a", "n", "a">>>>>>,
      <<<<"S", "N", " ", "3", "5", ".", "2", "8">>, <<<<"F", "i", "r", "e", " ", "S", "e", "r", "m", "o", "n">>>>>>>>

PlanAliasTables == {FireSermonTable, FramesTable}

\* The aliases a table lists, and the ids that list an alias.
AliasesOf(table) == UNION {Range(table[i][2]) : i \in DOMAIN table}
IdsOf(table, alias) == {table[i][1] : i \in {j \in DOMAIN table : alias \in Range(table[j][2])}}

QuestionAliases(table) ==
    [kind : {"title"}, name : AliasesOf(table), casing : Casings, sep1 : {<<>>},
     num1 : {<<>>}, sep2 : {<<>>}, num2 : {<<>>}, plain : BOOLEAN, suffix : SuttaSuffixes]

KeywordQuestions ==
    {<<"v", "i", "n", "a", "y", "a", " ", "r", "u", "l", "e", "s">>, <<"A", "b", "h", "i", "d", "h", "a", "m", "m", "a", " ", "o", "r", " ", "V", "i", "n", "a", "y", "a">>, <<"t", "h", "e", " ", "P", "a", ".t", ".t", "h", "aa", "n", "a">>, <<"P", "A", "T", "T", "H", "A", "N", "A">>,
     <<"D", "h", "a", "m", "m", "a", "s", "a", "\"n", "g", "a", ".n", "ii">>, <<"a", " ", "d", "i", "s", "c", "o", "u", "r", "s", "e">>, <<"F", "i", "r", "e", " ", "S", "e", "r", "m", "o", "n">>, <<"c", "r", "a", "v", "i", "n", "g">>,
     <<"S", "a", "t", "i", "p", "a", "t", "t", "h", "a", "n", "a", " ", "S", "u", "t", "t", "a">>, <<"S", "a", "t", "i", "p", "a", ".t", ".t", "h", "aa", "n", "a", " ", "s", "u", "t", "t", "a">>, <<"a", "b", "h", "i", "d", "h", "a", "m", "m", "a", " ", "s", "u", "t", "t", "a">>,
     <<"v", "i", "n", "a", "y", "a", " ", "s", "u", "t", "t", "a">>}

NotInstalled == [installed |-> FALSE, matches |-> <<>>]

\* What process.extract scores at or above the threshold, best first; the
\* keys it returns are keys of the table.
FuzzyAnswers ==
    {NotInstalled, [installed |-> TRUE, matches |-> <<>>],
     [installed |-> TRUE, matches |-> <<<<"f", "i", "r", "e", " ", "s", "e", "r", "m", "o", "n">>>>],
     [installed |-> TRUE, matches |-> <<<<"s", "a", "t", "i", "p", "a", "t", "t", "h", "a", "n", "a">>, <<"f", "i", "r", "e", " ", "s", "e", "r", "m", "o", "n">>, <<"m", "n", " ", "1", "0">>>>]}

PlanFuzzy(table) ==
    {f \in FuzzyAnswers :
        \A k \in Range(f.matches) : Truthy(Get(alias_to_id_of(<<>>, table), k, None))}

InitPlan ==
    /\ op = "init"
    /\ \/ /\ cit_in \in QuestionRefs
          /\ alias_table \in {<<>>, FireSermonTable}
          /\ rapidfuzz = NotInstalled
       \/ /\ alias_table \in PlanAliasTables
          /\ cit_in \in QuestionAliases(alias_table)
          /\ rapidfuzz \in PlanFuzzy(alias_table)
       \/ /\ cit_in \in {Verbatim(t) : t \in KeywordQuestions}
          /\ alias_table = <<>>
          /\ rapidfuzz = NotInstalled
    /\ question = TextOf(cit_in)
    /\ plan = None
    /\ main_out = "none"
    /\ cit_out = <<>>
    /\ IdleUtilities
    /\ IdleHelpers
    /\ IdleIndexer
    /\ IdleSynth
    /\ IdleRetriever

\* indexer.py build_index(): citations = _extract_citations(chunk), for a
\* passage with the text of the question
IndexQuestion ==
    /\ op = "planned"
    /\ cit_in.kind # "none"
    /\ op' = "indexed"
    /\ cit_out' = _extract_citations(question)
    /\ UNCHANGED <<cit_in, synVars, planVars, retVars, utilVars, helperVars, indexVars>>

\* fuzzy_ids(text, ALIAS_TO_ID, top_n=n) called on its own
FuzzyIds ==
    /\ op = "init"
    /\ op' = "fuzzy_ids"
    /\ \E n \in 1..MaxTopN :
            /\ fuzzy_top_n' = n
            /\ fuzzy_out' = fuzzy_ids(question, ALIAS_TO_ID, n, rapidfuzz)
    /\ UNCHANGED <<path_args, path_ret, synVars, citVars, planVars, retVars, helperVars, indexVars>>

(***************************************************************************)
(* _infer_nikaya_from_path on its own: folders and file names with each    *)
(* keyword of its table, with a keyword in Pali spelling, and with none.   *)
(***************************************************************************)
Folders ==
    {<<>>, <<"s", "u", "t", "t", "a">>, <<"S", "u", "t", "t", "a", "/", "D", "i", "g", "h", "a", "_", "N", "i", "k", "a", "y", "a">>, <<"s", "u", "t", "t", "a", "/", "k", "h", "u", "d", "d", "a", "k", "a", "/", "D", "h", "a", "m", "m", "a", "p", "a", "d", "a">>, <<"v", "i", "n", "a", "y", "a">>,
     <<"s", "u", "t", "t", "a", "/", "D", "ii", "g", "h", "a">>, <<"D", "i", "a", "l", "o", "g", "u", "e", "s", "/", "v", "o", "l", "1">>}

PdfNames ==
    {PATH_KEYWORDS[i][1] \o <<".", "p", "d", "f">> : i \in DOMAIN PATH_KEYWORDS}
    \cup {<<"b", "o", "o", "k", ".", "p", "d", "f">>, <<"S", "a", ".m", "y", "u", "t", "t", "a", ".", "p", "d", "f">>, <<"J", "a", "t", "a", "k", "a", "_", "T", "a", "l", "e", "s", ".", "P", "D", "F">>}

PathCasings == Casings \cup {"swapcase"}

InitPath ==
    /\ op = "init"
    /\ path_args \in [folder_path : Folders, pdf_name : PdfNames]
    /\ path_ret = None
    /\ fuzzy_top_n = 3
    /\ fuzzy_out = <<>>
    /\ cit_in = [kind |-> "none"]
    /\ cit_out = <<>>
    /\ IdleSynth
    /\ IdlePlanner
    /\ IdleRetriever
    /\ IdleHelpers
    /\ IdleIndexer

\* indexer.py build_index(): nikaya = _infer_nikaya_from_path(folder_path, pdf_name)
InferNikaya ==
    /\ op = "init"
    /\ op' = "_infer_nikaya_from_path"
    /\ path_ret' = _infer_nikaya_from_path(path_args.folder_path, path_args.pdf_name)
    /\ UNCHANGED <<path_args, fuzzy_top_n, fuzzy_out, synVars, citVars, planVars, retVars, helperVars, indexVars>>

\* The same PDF under a path that differs in letter case only.
InferRecased ==
    /\ op = "_infer_nikaya_from_path"
    /\ op' = "recased"
    /\ \E casing \in PathCasings :
            /\ path_args' = [folder_path |-> Recase(path_args.folder_path, casing),
                             pdf_name |-> Recase(path_args.pdf_name, casing)]
            /\ path_ret' = _infer_nikaya_from_path(path_args'.folder_path,
                                                   path_args'.pdf_name)
    /\ UNCHANGED <<fuzzy_top_n, fuzzy_out, synVars, citVars, planVars, retVars, helperVars, indexVars>>

(***************************************************************************)
(* The helpers of retrieve called on their own: _reciprocal_rank_fusion on *)
(* result lists as the three searches return them, and _citation_search    *)
(* on target references as the planner writes them.                        *)
(***************************************************************************)
\* Two passages that differ after their first KEY_LEN characters only.
LongPassage(last) ==
    Document([i \in 1..KEY_LEN |-> "x"] \o <<last>>, <<"l", "o", "n", "g", ".", "p", "d", "f">>, 1,
             <<"p", "1", "_", "c", "1">>, <<"s", "u", "t", "t", "a", "/", "l", "o", "n", "g", ".", "p", "d", "f">>, <<"s", "u", "t", "t", "a">>, <<>>, <<>>)

ResultLists ==
    {<<>>, <<Corpus[1]>>, <<Corpus[2]>>, <<Corpus[1], Corpus[2]>>,
     <<Corpus[2], Corpus[1]>>, <<Corpus[1], Corpus[2], Corpus[3]>>,
     <<Corpus[3], Corpus[1]>>, <<LongPassage("a"), LongPassage("b")>>,
     <<LongPassage("b"), Corpus[1]>>}

FusionArgs ==
    [fn : {"_reciprocal_rank_fusion"},
     results_lists : [1..2 -> ResultLists] \cup [1..MaxLists -> ResultLists]]

TargetRefs ==
    {<<>>, <<<<"S", "N", " ", "3", "5", ".", "2", "8">>>>, <<<<"S", "N", " ", "3">>>>, <<<<"S", "N", " ", "3", "5", ".", "2">>>>, <<<<"S", "N", "3", "5", ".", "2", "9">>>>,
     <<<<"M", "N", " ", "1", "0">>, <<"S", "N", " ", "3", "5", ".", "2", "9">>>>, <<<<"M", "N", " ", "1">>>>, <<<<"D", "N", " ", "2", "2">>>>}

CitationArgs == [fn : {"_citation_search"}, target_refs : TargetRefs]

InitHelpers ==
    /\ op = "init"
    /\ helper_args \in FusionArgs \cup CitationArgs
    /\ helper_ret = <<>>
    /\ IdleSynth
    /\ cit_in = [kind |-> "none"]
    /\ cit_out = <<>>
    /\ IdlePlanner
    /\ IdleRetriever
    /\ IdleUtilities
    /\ IdleIndexer

\* retrieve, line 209: docs = _reciprocal_rank_fusion(all_result_lists)
Fuse ==
    /\ op = "init"
    /\ helper_args.fn = "_reciprocal_rank_fusion"
    /\ op' = "_reciprocal_rank_fusion"
    /\ helper_ret' = _reciprocal_rank_fusion(helper_args.results_lists)
    /\ UNCHANGED <<helper_args, synVars, citVars, planVars, retVars, utilVars, indexVars>>

\* The orders in which the same lists can arrive.
Orders(n) == {f \in [1..n -> 1..n] : \A i, j \in 1..n : f[i] = f[j] => i = j}

\* The same result lists in another order.
FusePermuted ==
    /\ op = "_reciprocal_rank_fusion"
    /\ op' = "permuted"
    /\ \E order \in Orders(Len(helper_args.results_lists)) :
          LET lists == [i \in DOMAIN order |-> helper_args.results_lists[order[i]]]
          IN /\ helper_args' = [helper_args EXCEPT !.results_lists = lists]
             /\ helper_ret' = _reciprocal_rank_fusion(lists)
    /\ UNCHANGED <<synVars, citVars, planVars, retVars, utilVars, indexVars>>

\* retrieve, line 184: citation_docs = _citation_search(target_refs, db)
CitationSearch ==
    /\ op = "init"
    /\ helper_args.fn = "_citation_search"
    /\ op' = "_citation_search"
    /\ LET index == IF Truthy(helper_args.target_refs)
                    THEN _get_bm25_index(_bm25_docs, BM25_CACHE)
                    ELSE [docs |-> <<>>, mem |-> _bm25_docs, cache |-> BM25_CACHE]
       IN /\ helper_ret' = _citation_search(helper_args.target_refs, index.docs)
          /\ _bm25_docs' = index.mem
          /\ BM25_CACHE' = index.cache
    /\ UNCHANGED <<helper_args, ret_k, store, backend, ret_out, ret_log, ret_ranked,
                   synVars, citVars, planVars, utilVars, indexVars>>

(***************************************************************************)
(* The indexer run on its own, once or again over the same PDFs, against   *)
(* an embedding backend that refuses texts above its input limit or cannot *)
(* be reached.                                                             *)
(***************************************************************************)
\* The most runs of build_index in one behaviour.
MaxRuns == 2

Pdf(folder_path, pdf_name, pages) ==
    [folder_path |-> folder_path, pdf_name |-> pdf_name, pages |-> pages]

\* A PDF of BATCH_SIZE pages of one chunk each: page 3 begins with a chunk
\* that is too short to keep, and the chunk of page 7 is a long one.
LongPdf ==
    Pdf(<<"t", "e", "x", "t", "s", "/", "s", "a", "m", "y", "u", "t", "t", "a">>, <<"s", "n", ".", "p", "d", "f">>,
        [page_num \in 1..BATCH_SIZE |->
            IF page_num = 3 THEN <<<<"T", "h", "u", "s", ".">>, ChunkOf(<<"S", "N", " ", "3", "5", ".", "2", "8", " ", "a", "l", "l", " ", "b", "u", "r", "n", "s">>, 50)>>
            ELSE IF page_num = 7 THEN <<ChunkOf(<<"t", "h", "e", " ", "e", "y", "e", " ", "b", "u", "r", "n", "s">>, 70)>>
            ELSE <<ChunkOf(<<"f", "o", "r", "m", "s", " ", "b", "u", "r", "n">>, 50)>>])

\* A PDF at the top of DATA: a page of one chunk, a page without text and a
\* page of two chunks.
ShortPdf ==
    Pdf(<<>>, <<"M", "n", ".", "p", "d", "f">>,
        <<<<ChunkOf(<<"m", "i", "n", "d", "f", "u", "l", " ", "M", "N", " ", "1", "0">>, 60)>>, <<>>,
          <<ChunkOf(<<"a", "r", "d", "e", "n", "t">>, 50), ChunkOf(<<"a", "w", "a", "r", "e">>, 50)>>>>)

VinayaPdf == Pdf(<<"t", "e", "x", "t", "s", "/", "v", "i", "n", "a", "y", "a">>, <<"v", "i", "n", ".", "p", "d", "f">>, <<<<ChunkOf(<<"a", " ", "r", "u", "l", "e">>, 70)>>>>)

DataDirs == {<<>>, <<ShortPdf>>, <<VinayaPdf, ShortPdf>>, <<LongPdf, ShortPdf>>}

\* The messages of the backend for a text above its input limit.
LimitMessages ==
    {<<"t", "h", "e", " ", "i", "n", "p", "u", "t", " ", "l", "e", "n", "g", "t", "h", " ", "e", "x", "c", "e", "e", "d", "s", " ", "t", "h", "e", " ", "c", "o", "n", "t", "e", "x", "t", " ", "l", "e", "n", "g", "t", "h">>,
     <<"I", "n", "p", "u", "t", " ", "l", "e", "n", "g", "t", "h", " ", "e", "x", "c", "e", "e", "d", "s", " ", "m", "a", "x", "i", "m", "u", "m", " ", "c", "o", "n", "t", "e", "x", "t", " ", "l", "e", "n", "g", "t", "h">>}

Embeddings == [up : BOOLEAN, limit : {55, 65, 100}, message : LimitMessages]

InitIndex ==
    /\ op = "init"
    /\ data_dir \in DataDirs
    /\ embedding \in Embeddings
    /\ build_log = <<>>
    /\ ret_k = 1
    /\ store = <<>>
    /\ _bm25_docs = None
    /\ BM25_CACHE = None
    /\ backend = [vec_rank |-> <<1, 2, 3, 4, 5>>, bm25_scores |-> <<0, 0, 0, 0, 0>>,
                  rerank_scores |-> <<5, 4, 3, 2, 1>>, faults |-> {},
                  mmr_type_error |-> FALSE]
    /\ ret_out = NoResult
    /\ ret_log = <<>>
    /\ ret_ranked = <<>>
    /\ IdleSynth
    /\ cit_in = [kind |-> "none"]
    /\ cit_out = <<>>
    /\ IdlePlanner
    /\ IdleUtilities
    /\ IdleHelpers

\* python indexer.py: build_index()
BuildIndex ==
    /\ op \in {"init", "planned", "retrieved", "build_index", "rebuild_bm25_index"}
    /\ Len(build_log) < MaxRuns
    /\ op' = "build_index"
    /\ store' = build_index(store, data_dir).store
    /\ build_log' = Append(build_log, IF build_index(store, data_dir).exc = None
                                      THEN "returned" ELSE "raised")
    /\ UNCHANGED <<data_dir, embedding, ret_k, _bm25_docs, BM25_CACHE, backend, ret_out,
                   ret_log, ret_ranked, synVars, citVars, planVars, utilVars, helperVars>>

(***************************************************************************)
(* The retriever of a running process and the indexer: the collection was  *)
(* built before; PDFs are indexed again, the BM25 index is rebuilt, and    *)
(* questions are answered, in any order.                                   *)
(***************************************************************************)
\* The PDFs under DATA: passages of the collection, indexed once more.
SnPdf ==
    Pdf(<<"s", "u", "t", "t", "a">>, <<"s", "n", ".", "p", "d", "f">>, <<<<Corpus[1].page_content>>, <<Corpus[2].page_content>>>>)

OtherPdf == Pdf(<<"t", "e", "x", "t", "s", "/", "v", "i", "n", "a", "y", "a">>, <<"v", "i", "n", ".", "p", "d", "f">>, <<<<Corpus[4].page_content>>>>)

ReindexedDirs == {<<SnPdf>>, <<OtherPdf, SnPdf>>}

ReindexPlans ==
    {[query_terms |-> <<<<"f", "i", "r", "e">>>>],
     [basket_hint |-> None, targets |-> <<<<"S", "N", " ", "3", "5", ".", "2", "8">>>>, query_terms |-> <<<<"f", "i", "r", "e">>>>],
     [basket_hint |-> <<"s", "u", "t", "t", "a">>, targets |-> <<>>, query_terms |-> <<<<"f", "i", "r", "e">>, <<"b", "u", "r", "n", "s">>>>]}

ReindexBackends ==
    [vec_rank : {<<1, 2, 3, 4, 5>>, <<3, 1, 4, 2, 5>>},
     bm25_scores : {<<2, 1, 2, 0, 0>>, <<1, 1, 0, 3, 2>>},
     rerank_scores : {<<5, 4, 3, 2, 1>>}, faults : {{}, {"bm25"}},
     mmr_type_error : {FALSE}]

InitReindex ==
    /\ op = "planned"
    /\ plan \in ReindexPlans
    /\ ret_k = 1
    /\ store = Corpus
    /\ \E index \in IndexStates : _bm25_docs = index[1] /\ BM25_CACHE = index[2]
    /\ backend \in ReindexBackends
    /\ ret_out = NoResult
    /\ ret_log = <<>>
    /\ ret_ranked = <<>>
    /\ data_dir \in ReindexedDirs
    /\ embedding = [up |-> TRUE, limit |-> 100,
                    message |-> <<"t", "h", "e", " ", "i", "n", "p", "u", "t", " ", "l", "e", "n", "g", "t", "h", " ", "e", "x", "c", "e", "e", "d", "s", " ", "t", "h", "e", " ", "c", "o", "n", "t", "e", "x", "t", " ", "l", "e", "n", "g", "t", "h">>]
    /\ build_log = <<>>
    /\ question = <<>>
    /\ alias_table = <<>>
    /\ rapidfuzz = [installed |-> FALSE, matches |-> <<>>]
    /\ main_out = "none"
    /\ IdleSynth
    /\ cit_in = [kind |-> "none"]
    /\ cit_out = <<>>
    /\ IdleUtilities
    /\ IdleHelpers

\* python retriever.py: rebuild_bm25_index()
RebuildBm25Index ==
    /\ op \in {"planned", "retrieved", "build_index"}
    /\ op' = "rebuild_bm25_index"
    /\ _bm25_docs' = rebuild_bm25_index.mem
    /\ BM25_CACHE' = rebuild_bm25_index.cache
    /\ UNCHANGED <<ret_k, store, backend, ret_out, ret_log, ret_ranked, synVars, citVars,
                   planVars, utilVars, helperVars, indexVars>>

(***************************************************************************)
(* Specifications                                                          *)
(***************************************************************************)
NextSynth == Synthesize \/ SynthesizeWorkbookEntry

SpecSynth == InitSynth /\ [][NextSynth]_vars

NextCite == ExtractCitations \/ ExtractAgain

SpecCite == InitCite /\ [][NextCite]_vars

NextRetrieve == Retrieve

SpecRetrieve == InitRetrieve /\ [][NextRetrieve]_vars

NextPipeline == PlanQuery \/ Retrieve \/ Answer \/ Main

SpecPipeline == InitPipeline /\ [][NextPipeline]_vars

NextPlan == PlanQuery \/ IndexQuestion \/ FuzzyIds

SpecPlan == InitPlan /\ [][NextPlan]_vars

NextPath == InferNikaya \/ InferRecased

SpecPath == InitPath /\ [][NextPath]_vars

NextHelpers == Fuse \/ FusePermuted \/ CitationSearch

SpecHelpers == InitHelpers /\ [][NextHelpers]_vars

NextIndex == BuildIndex

SpecIndex == InitIndex /\ [][NextIndex]_vars

NextReindex == Retrieve \/ BuildIndex \/ RebuildBm25Index

SpecReindex == InitReindex /\ [][NextReindex]_vars

(***************************************************************************)
(* Properties of the synthesizer                                           *)
(***************************************************************************)
Synthesized == op \in {"synthesize", "synthesize_workbook_entry"}

NoEvidenceMessage ==
    IF op = "synthesize" THEN <<Lit("I couldn't find relevant passages", 0)>>
    ELSE <<Lit("## No Passages Found", 0)>>

\* C1: with no hits, synthesize returns its fixed no-evidence message and
\* synthesize_workbook_entry its fixed "No Passages Found" message, whatever
\* the question or topic, and neither calls the generative model.
C1_NoHitsRefusal ==
    (Synthesized /\ syn_args.hits = <<>>) =>
        (syn_ret = NoEvidenceMessage /\ llm_log = <<>>)

C1_Witness ==
    /\ op = "synthesize_workbook_entry"
    /\ syn_args.hits = <<>>
    /\ syn_args.query = <<"c", "r", "a", "v", "i", "n", "g">>
    /\ MIN_HITS = 2
    /\ syn_ret = <<Lit("## No Passages Found", 0)>>

HedgeMessages ==
    {<<"I found only {n} potentially relevant passage(s)">>,
     <<"## Limited Sources: Only {n} passage(s) found">>}

HedgeTaken == syn_ret # <<>> /\ syn_ret[1].k = "lit" /\ syn_ret[1].s \in HedgeMessages

\* The label of a hit in a source list: its path (relpath, else pdf_name)
\* and its page.
Label(h) == <<IF h.relpath \notin {None, <<>>} THEN h.relpath ELSE h.pdf_name, h.page>>

SourceLines == SelectSeq(syn_ret, LAMBDA piece : piece.k = "src")

Listed(h) == \E i \in DOMAIN SourceLines : <<SourceLines[i].path, SourceLines[i].n>> = Label(h)

\* C2: the hedge path is taken exactly when 0 < len(hits) < MIN_HITS; then
\* the generative model is not called and the text lists the source label of
\* every hit; with len(hits) >= MIN_HITS the hedge path is not taken.
C2_HedgeExactlyBelowMinimum ==
    Synthesized =>
        /\ HedgeTaken <=> (0 < Len(syn_args.hits) /\ Len(syn_args.hits) < MIN_HITS)
        /\ HedgeTaken =>
              /\ llm_log = <<>>
              /\ \A i \in DOMAIN syn_args.hits : Listed(syn_args.hits[i])

C2_Witness ==
    /\ op = "synthesize"
    /\ MIN_HITS = 3
    /\ Len(syn_args.hits) = 2
    /\ Label(syn_args.hits[1]) # Label(syn_args.hits[2])
    /\ syn_args.hits[2].relpath = None
    /\ HedgeTaken
    /\ Len(SourceLines) = 2

\* The index of the first hit that carries a label.
FirstAt(label) ==
    CHOOSE i \in DOMAIN syn_args.hits :
        /\ Label(syn_args.hits[i]) = label
        /\ \A j \in 1..(i - 1) : Label(syn_args.hits[j]) # label

\* The text is the model's reply, unmodified, followed by the source list,
\* and the list has one line per distinct label in order of first occurrence.
AnswerWithSources ==
    /\ Len(llm_log) = 1
    /\ syn_ret[1] = Gen(llm_reply)
    /\ syn_ret[2] = Lit("Sources:", 0)
    /\ \A i \in 3..Len(syn_ret) : syn_ret[i].k = "src"
    /\ {<<SourceLines[i].path, SourceLines[i].n>> : i \in DOMAIN SourceLines}
          = {Label(syn_args.hits[i]) : i \in DOMAIN syn_args.hits}
    /\ \A i, j \in DOMAIN SourceLines :
          i < j => FirstAt(<<SourceLines[i].path, SourceLines[i].n>>)
                     < FirstAt(<<SourceLines[j].path, SourceLines[j].n>>)

\* C4 as claimed: whenever len(hits) >= MIN_HITS, synthesize calls the model
\* once and returns its text followed by the de-duplicated source list.
C4_AsClaimed ==
    (op = "synthesize" /\ Len(syn_args.hits) >= MIN_HITS) => AnswerWithSources

\* C4 as amended: whenever hits is not empty and len(hits) >= MIN_HITS,
\* synthesize calls the model exactly once and returns the model's text
\* unmodified, followed by a source list with exactly one line per distinct
\* (path, page) among the hits, in order of first occurrence.
C4_AnswerWithSources ==
    (op = "synthesize" /\ syn_args.hits # <<>> /\ Len(syn_args.hits) >= MIN_HITS)
        => AnswerWithSources

C4_Witness ==
    /\ op = "synthesize"
    /\ MIN_HITS = 2
    /\ Len(syn_args.hits) = 3
    /\ Label(syn_args.hits[1]) = Label(syn_args.hits[3])
    /\ Label(syn_args.hits[1]) # Label(syn_args.hits[2])
    /\ Len(SourceLines) = 2
    /\ Len(llm_log) = 1

(***************************************************************************)
(* Properties of the citation normalizer                                   *)
(***************************************************************************)
Extracted == op = "_extract_citations"

\* C9: for any collection code, number and optional sub-number,
\* _extract_citations returns the single string "<CODE> <n>[.<m>]" whichever
\* supported separator the text uses: space, period, colon, hyphen or nothing
\* between code and number; space, period, colon or hyphen before the
\* sub-number.
C9_SeparatorVariantsAgree ==
    (Extracted /\ cit_in.kind = "ref" /\ cit_in.casing = "asis") =>
        cit_out = <<Citation(cit_in.name, cit_in.num1, cit_in.num2)>>

\* The same, for the separators the pattern's own comment lists (no bare
\* space before the sub-number): still violated, by the book codes.
C9_DocumentedSeparatorsAgree ==
    (Extracted /\ cit_in.kind = "ref" /\ cit_in.casing = "asis"
        /\ cit_in.sep2 # <<" ">>) =>
        cit_out = <<Citation(cit_in.name, cit_in.num1, cit_in.num2)>>

\* C10: for every title of the catalog, _extract_citations returns the same
\* set, which contains the reference the catalog maps the title to, for the
\* title with and without its diacritics, with and without the trailing
\* word "Sutta", in any letter case.
C10_TitleFormsAgree ==
    (Extracted /\ cit_in.kind = "title") =>
        /\ Range(cit_out) = citations_of(cit_in.name)
        /\ Get(SUTTA_NAME_TO_REF, cit_in.name, None) \in Range(cit_out)

C10_Witness ==
    /\ Extracted
    /\ cit_in.kind = "title"
    /\ cit_in.name = <<"aa", "d", "i", "t", "t", "a", "p", "a", "r", "i", "y", "aa", "y", "a">>
    /\ cit_in.plain
    /\ cit_in.casing = "upper"
    /\ cit_in.suffix # <<>>

\* C30: a text that is one title of the catalog, with or without the word
\* "Sutta", yields the one reference the catalog gives for that title and
\* no other.
C30_TitleYieldsItsReferenceOnly ==
    (Extracted /\ cit_in.kind = "title") =>
        cit_out = <<Get(SUTTA_NAME_TO_REF, cit_in.name, None)>>

ExtractedAgain == op = "again"

\* C11: every reference _extract_citations returns for a text is returned
\* unchanged when that reference alone is the text.
C11_RoundTrip == ExtractedAgain => cit_in.name \in Range(cit_out)

\* The code written in the text of a short-code reference.
WrittenCode == Recase(cit_in.name, cit_in.casing)

\* The code a citation starts with: what stands before its first space.
CodeOf(citation) ==
    SubSeq(citation, 1, (CHOOSE i \in DOMAIN citation : citation[i] = " "
                            /\ \A j \in 1..(i - 1) : citation[j] # " ") - 1)

AmbiguousCode == Extracted /\ cit_in.kind = "ref" /\ lower(WrittenCode) = <<"s", "n">>

\* C12: a text that writes the ambiguous code exactly as "Sn" yields the
\* Sutta Nipata form "Sn <n>"; in any other casing ("sn", "SN", "sN") it
\* yields the Samyutta form "SN <n>".
C12_SnOnlyWhenWrittenSn ==
    AmbiguousCode =>
        /\ cit_out # <<>>
        /\ \A k \in DOMAIN cit_out :
                CodeOf(cit_out[k]) = (IF WrittenCode = <<"S", "n">> THEN <<"S", "n">>
                                      ELSE <<"S", "N">>)

C12_Witness ==
    /\ AmbiguousCode
    /\ WrittenCode = <<"s", "N">>
    /\ cit_out = <<<<"S", "N", " ", "3", "5", ".", "2", "8">>>>
    /\ cit_out = <<<<"S", "N", " ", "3", "5", ".", "2", "8">>>>

(***************************************************************************)
(* Properties of the retriever                                             *)
(***************************************************************************)
Retrieved == op \in {"retrieved", "answered"}

\* The identity of a hit: its document, page and span.
Identity(h) == <<h.pdf_name, h.page, h.span_id>>

\* C6: for every plan and every k >= 1, retrieve returns at most k hits, and
\* no two of them have the same (document, page, span_id).
C6_AtMostKDistinctHits ==
    (Retrieved /\ ret_out.kind = "returned") =>
        /\ Len(ret_out.hits) <= ret_k
        /\ \A i, j \in DOMAIN ret_out.hits :
              i # j => Identity(ret_out.hits[i]) # Identity(ret_out.hits[j])

\* k hits, k >= 2, are returned from an unfiltered search that fetched the
\* whole collection, two translations with one identity among it.
C6_Witness ==
    /\ op = "retrieved"
    /\ ret_out.kind = "returned"
    /\ ret_k >= 2
    /\ Len(ret_out.hits) = ret_k
    /\ \E i \in DOMAIN ret_log : /\ ret_log[i].fn = "max_marginal_relevance_search"
                                 /\ ret_log[i].filter = None
                                 /\ ret_log[i].k >= Len(store)
    /\ \E i, j \in DOMAIN store :
          /\ i # j
          /\ store[i].metadata.pdf_name = store[j].metadata.pdf_name
          /\ store[i].metadata.page = store[j].metadata.page
          /\ store[i].metadata.span_id = store[j].metadata.span_id

\* C8: if one retrieval phase (citation-targeted, vector or BM25 search)
\* raises a backend error, retrieve does not raise and returns the hits of
\* the other phases.
C8_PhaseErrorIsNotFatal ==
    (Retrieved /\ Cardinality(backend.faults) = 1) => ret_out.kind = "returned"

(***************************************************************************)
(* Properties of the pipeline                                              *)
(***************************************************************************)
VectorCalls ==
    SelectSeq(ret_log, LAMBDA c : c.fn \in {"max_marginal_relevance_search",
                                             "similarity_search"})

CitationCalls == SelectSeq(ret_log, LAMBDA c : c.fn = "_citation_search")

\* C7: retrieve consumes the plan plan_query returned: it searches with the
\* plan's search terms, filters by the basket of the plan's constraints, and
\* runs the citation-targeted search for the plan's canonical targets
\* whenever there are any.
C7_RetrieveConsumesPlan ==
    Retrieved =>
        /\ VectorCalls # <<>>
        /\ \A i \in DOMAIN VectorCalls :
              Contains(VectorCalls[i].q, plan.search_terms[1])
        /\ VectorCalls[1].filter = get(plan.constraints, "basket", None)
        /\ plan.canonical_targets # <<>> =>
              \E i \in DOMAIN CitationCalls :
                  CitationCalls[i].refs = plan.canonical_targets

Answered == op = "answered"

\* A target occurs in the text of a hit, ignoring case and spaces.
TargetInHits ==
    \E i \in DOMAIN plan.canonical_targets, j \in DOMAIN syn_args.hits :
        Contains(replace(lower(syn_args.hits[j].text), " ", <<>>),
                 replace(lower(plan.canonical_targets[i]), " ", <<>>))

GuidanceMessage == Lit("narrow the query", 0)

\* C3: if the plan has canonical targets and none of them occurs (ignoring
\* case and spaces) in the texts of the hits, synthesize returns a guidance
\* message asking to narrow the query and no generated answer.
C3_TargetMismatchGuidance ==
    (Answered /\ plan.canonical_targets # <<>> /\ Len(syn_args.hits) >= MIN_HITS
     /\ syn_args.hits # <<>> /\ ~TargetInHits) =>
        /\ GuidanceMessage \in Range(syn_ret)
        /\ \A i \in DOMAIN syn_ret : syn_ret[i].k # "llm"
        /\ llm_log = <<>>

Disclaimer == Lit("disclaimer", 0)

\* C5: when the plan has targets and the model's output mentions a reference
\* that is not among them, the returned text is the model's text, unedited,
\* with a disclaimer note appended.
C5_DisclaimerAppended ==
    (Answered /\ plan.canonical_targets # <<>> /\ llm_log # <<>>
     /\ citations_of(llm_reply) \ Range(plan.canonical_targets) # {}) =>
        /\ syn_ret[1] = Gen(llm_reply)
        /\ \E i \in DOMAIN syn_ret : i > 1 /\ syn_ret[i] = Disclaimer

(***************************************************************************)
(* Properties of the planner and the alias resolver                        *)
(***************************************************************************)
Planned == op = "planned"
Indexed == op = "indexed"

\* The reference a question cites, in its canonical form.
CitedReference == Citation(cit_in.name, cit_in.num1, cit_in.num2)

\* C13: for a question that cites one short-code reference, with a space, a
\* period, a colon, a hyphen or nothing between code and number, the
\* canonical targets of the plan are the single string "<CODE> <n>[.<m>]",
\* the string _extract_citations gives for the same text.
C13_TargetIsCanonicalReference ==
    (Indexed /\ cit_in.kind = "ref" /\ cit_in.casing = "asis" /\ cit_in.name # <<"K", "N">>) =>
        /\ plan.canonical_targets = <<CitedReference>>
        /\ CitedReference \in Range(cit_out)

\* C14: when the first target of a question has a booklet code (Sn, Khp,
\* Dhp, Thag, Thig) the nikaya constraint of the plan is the umbrella "KN";
\* when its code is DN, MN, SN, AN or KN the constraint is that code.
C14_BookletCodesUnderUmbrella ==
    (Planned /\ cit_in.kind = "ref" /\ cit_in.casing = "asis") =>
        get(plan.constraints, "nikaya", None) =
            (IF cit_in.name \in {<<"S", "n">>, <<"K", "h", "p">>, <<"D", "h", "p">>, <<"T", "h", "a", "g">>, <<"T", "h", "i", "g">>} THEN <<"K", "N">>
             ELSE cit_in.name)

\* C15: a question that contains an alias of the table, as written or without
\* its diacritics and in any letter case, has every id that lists the alias
\* among the canonical targets, whatever else the table holds.
C15_AliasResolvesWithoutDiacritics ==
    (Planned /\ cit_in.kind = "title") =>
        IdsOf(alias_table, cit_in.name) \subseteq Range(plan.canonical_targets)

FuzzyCalled == op = "fuzzy_ids"

NoDuplicates(s) == \A i, j \in DOMAIN s : s[i] = s[j] => i = j

IsPrefix(a, b) == Len(a) <= Len(b) /\ SubSeq(b, 1, Len(a)) = a

\* The ids with a key that is part of the text or of its plain form.
IdsByContainment ==
    {ALIAS_TO_ID[i][2] :
        i \in {j \in DOMAIN ALIAS_TO_ID :
                  \/ Contains(lower(question), ALIAS_TO_ID[j][1])
                  \/ Contains(_strip_diacritics(lower(question)), ALIAS_TO_ID[j][1])}}

\* What the same call returns when rapidfuzz is not installed.
SubstringOnly == fuzzy_ids(question, ALIAS_TO_ID, fuzzy_top_n, NotInstalled)

\* C16: fuzzy_ids returns at most top_n ids, none twice; the ids found by
\* containment come first, the fuzzy pass only appends to them, and without
\* rapidfuzz the result is the one of containment alone.
C16_FuzzyOnlyAppends ==
    FuzzyCalled =>
        /\ NoDuplicates(fuzzy_out)
        /\ Len(fuzzy_out) <= fuzzy_top_n
        /\ IsPrefix(SubstringOnly, fuzzy_out)
        /\ Range(SubstringOnly) \subseteq IdsByContainment
        /\ Len(SubstringOnly) < fuzzy_top_n => Range(SubstringOnly) = IdsByContainment
        /\ ~rapidfuzz.installed => fuzzy_out = SubstringOnly

C16_Witness ==
    /\ FuzzyCalled
    /\ rapidfuzz.installed
    /\ fuzzy_top_n = 2
    /\ SubstringOnly = <<<<"S", "N", " ", "3", "5", ".", "2", "8">>>>
    /\ fuzzy_out = <<<<"S", "N", " ", "3", "5", ".", "2", "8">>, <<"D", "N", " ", "2", "2">>>>

\* The question and, if it has diacritics, the question without them.
Seeds ==
    LET q == strip(question)
    IN IF _strip_diacritics(q) # q THEN <<q, _strip_diacritics(q)>> ELSE <<q>>

\* The aliases the table lists for the targets of the plan, in target order.
KnownAliases == FlatMap(LAMBDA sid : Get(alias_table, sid, <<>>), plan.canonical_targets)

\* Of KnownAliases, each string once, where it comes first, unless it is a seed.
NewAliases ==
    LET numbered == [i \in DOMAIN KnownAliases |-> <<i, KnownAliases[i]>>]
        kept == SelectSeq(numbered,
                          LAMBDA e : /\ e[2] \notin Range(Seeds)
                                     /\ \A j \in 1..(e[1] - 1) : KnownAliases[j] # e[2])
    IN [i \in DOMAIN kept |-> kept[i][2]]

\* C17: search_terms has no string twice; it starts with the trimmed
\* question, then the question without diacritics if that is another string,
\* then the known aliases of the targets in target order.
C17_SearchTermsOrderedWithoutRepeats ==
    Planned =>
        /\ NoDuplicates(plan.search_terms)
        /\ plan.search_terms = Seeds \o NewAliases

C17_Witness ==
    /\ Planned
    /\ Len(Seeds) = 2
    /\ Len(plan.search_terms) = 3
    /\ \E a \in Range(KnownAliases) : a \in Range(Seeds)

\* w stands in t as a word of its own.
ContainsWord(t, w) ==
    \E i \in 1..(Len(t) - Len(w) + 1) :
        /\ SubSeq(t, i, i + Len(w) - 1) = w
        /\ WordBoundary(t, i)
        /\ WordBoundary(t, i + Len(w))

MentionsVinaya == ContainsWord(lower(question), <<"v", "i", "n", "a", "y", "a">>)

MentionsAbhidhamma ==
    \E w \in {<<"a", "b", "h", "i", "d", "h", "a", "m", "m", "a">>, <<"p", "a", ".t", ".t", "h", "aa", "n", "a">>, <<"p", "a", "t", "t", "h", "a", "n", "a">>,
              <<"d", "h", "a", "m", "m", "a", "s", "a", "\"n", "g", "a", ".n", "ii">>, <<"d", "h", "a", "m", "m", "a", "s", "a", "n", "g", "a", "n", "i">>} :
        ContainsWord(lower(question), w)

NamesDiscourse ==
    \E w \in {<<"s", "u", "t", "t", "a">>, <<"s", "e", "r", "m", "o", "n">>, <<"d", "i", "s", "c", "o", "u", "r", "s", "e">>} : Contains(lower(question), w)

Basket == get(plan.constraints, "basket", None)

\* C18: the category of the plan follows the keywords of the question with
\* the precedence vinaya, abhidhamma, sutta: "abhidhamma" only for a question
\* that mentions the Abhidhamma or one of its treatises, and "sutta" for a
\* question that names a discourse and none of the other words.
C18_CategoryFromKeywords ==
    Planned =>
        /\ MentionsVinaya => Basket = <<"v", "i", "n", "a", "y", "a">>
        /\ Basket = <<"a", "b", "h", "i", "d", "h", "a", "m", "m", "a">> => MentionsAbhidhamma /\ ~MentionsVinaya
        /\ (NamesDiscourse /\ ~MentionsVinaya /\ ~MentionsAbhidhamma) => Basket = <<"s", "u", "t", "t", "a">>

(***************************************************************************)
(* Properties of _infer_nikaya_from_path                                   *)
(***************************************************************************)
Inferred == op \in {"_infer_nikaya_from_path", "recased"}

\* The tests whose keyword is part of the folder path or of the file name,
\* whatever the letter case.
KeywordsInPath ==
    {i \in DOMAIN PATH_KEYWORDS :
        \/ Contains(lower(path_args.folder_path), PATH_KEYWORDS[i][1])
        \/ Contains(lower(path_args.pdf_name), PATH_KEYWORDS[i][1])}

PathResultAsClaimed ==
    IF KeywordsInPath = {} THEN path_ret = None
    ELSE \E i \in KeywordsInPath : path_ret = PATH_KEYWORDS[i][2]

\* C19: _infer_nikaya_from_path returns the code of a collection keyword that
\* the folder or the file name contains, None when they contain no keyword
\* of its table, and the same for a path and for any re-casing of it.
C19_InferredFromPathWhateverCase ==
    [][/\ Inferred' => PathResultAsClaimed'
       /\ InferRecased => path_ret' = path_ret]_vars

C19_Witness ==
    /\ op = "recased"
    /\ path_args.folder_path = <<"S", "U", "T", "T", "A">>
    /\ path_args.pdf_name = <<"D", "H", "A", "M", "M", "A", "P", "A", "D", "A", ".", "P", "D", "F">>
    /\ path_ret = <<"D", "h", "p">>

(***************************************************************************)
(* The shared indexes                                                      *)
(***************************************************************************)
\* C20: a call of retrieve leaves the vector store, the BM25 index in memory
\* and the BM25 cache on disk as they were, the first call of a process
\* included.
C20_RetrieveLeavesIndexesAlone ==
    [][Retrieve => UNCHANGED <<store, _bm25_docs, BM25_CACHE>>]_vars

(***************************************************************************)
(* The order of the hits                                                   *)
(***************************************************************************)
\* The place of a returned hit among the candidates the bias sort left.
RankOf(hit) == CHOOSE i \in DOMAIN ret_ranked : HitOf(ret_ranked[i]) = hit

\* The hits that were returned, as places among the candidates.
KeptRanks == {RankOf(ret_out.hits[i]) : i \in DOMAIN ret_out.hits}

\* C24: the returned hits are in the order of the bias-adjusted ranking, and
\* a candidate is left out only if a kept hit has its file name or k
\* candidates ranked above it are kept.
C24_HitsInRankOrder ==
    (Retrieved /\ ret_out.kind = "returned") =>
        /\ \A i, j \in DOMAIN ret_out.hits :
              i < j => RankOf(ret_out.hits[i]) < RankOf(ret_out.hits[j])
        /\ \A c \in DOMAIN ret_ranked :
              \/ c \in KeptRanks
              \/ \E r \in KeptRanks :
                    lower(ret_ranked[r].metadata.pdf_name)
                        = lower(ret_ranked[c].metadata.pdf_name)
              \/ Cardinality({r \in KeptRanks : r < c}) >= ret_k

\* The cross-encoder score of a candidate plus the flat bonus of its basket.
TotalScore(doc) ==
    backend.rerank_scores[CorpusIndex(doc)]
    + (IF Truthy(get(plan, "basket_hint", None))
          /\ doc.metadata.basket = get(plan, "basket_hint", None)
       THEN BASKET_BONUS ELSE 0)

\* C25: after the bias step the candidates are in non-increasing order of
\* rerank score plus bonus, so a candidate outside the basket whose score
\* is more than the bonus above a candidate inside it stays ahead.
C25_BiasIsAdditive ==
    (Retrieved /\ ret_out.kind = "returned") =>
        \A i, j \in DOMAIN ret_ranked :
            i < j => TotalScore(ret_ranked[i]) >= TotalScore(ret_ranked[j])

\* The search ran a second time, without the metadata filter.
Widened == Len(SelectSeq(ret_log, LAMBDA c : c.fn = "_bm25_search")) = 2

\* Phase A: what the vector search returns under the filter of the plan.
PhaseA ==
    vector_search(plan_args(plan, ret_k).where_filter, plan_args(plan, ret_k).fetch_k)

\* C27: retrieve searches again without the filter exactly when the plan
\* gave a filter and the filtered vector search returned fewer than
\* RAG_MIN_NEEDED passages, whatever the keyword and citation searches found.
C27_WidensOnPhaseAOnly ==
    (op = "retrieved" /\ ret_out.kind = "returned" /\ backend.faults = {}) =>
        (Widened <=> /\ plan_args(plan, ret_k).where_filter # None
                     /\ Len(PhaseA) < RAG_MIN_NEEDED)

(***************************************************************************)
(* Properties of fusion and of the citation-targeted search                *)
(***************************************************************************)
Fused == op \in {"_reciprocal_rank_fusion", "permuted"}

\* The content key of a passage: the first KEY_LEN characters of its text.
ContentKey(doc) == Take(doc.page_content, KEY_LEN)

\* Every (list, place) of the input, and the passage at it.
Places ==
    {pl \in (1..MaxLists) \X (1..Len(Corpus)) :
        /\ pl[1] \in DOMAIN helper_args.results_lists
        /\ pl[2] \in DOMAIN helper_args.results_lists[pl[1]]}

PassageAt(pl) == helper_args.results_lists[pl[1]][pl[2]]

RECURSIVE SumOver(_, _)
SumOver(places, key) ==
    IF places = {} THEN 0
    ELSE LET pl == CHOOSE x \in places : TRUE
         IN (IF ContentKey(PassageAt(pl)) = key THEN RankScale \div (60 + (pl[2] - 1) + 1)
             ELSE 0)
            + SumOver(places \ {pl}, key)

\* The score the fusion gives a key: the sum of 1 / (60 + rank + 1) over the
\* places, rank from 0, where a passage with the key stands, in units of
\* 1 / RankScale.
ClaimedScore(key) == SumOver(Places, key)

\* C22: the fused list has one passage of the input for each content key of
\* the input, and is in non-increasing order of the sum of
\* 1 / (60 + rank + 1) over the places where the key of the passage occurs.
C22_FusionScoresAndOrder ==
    Fused =>
        /\ \A i, j \in DOMAIN helper_ret :
              ContentKey(helper_ret[i]) = ContentKey(helper_ret[j]) => i = j
        /\ {ContentKey(helper_ret[i]) : i \in DOMAIN helper_ret}
              = {ContentKey(PassageAt(pl)) : pl \in Places}
        /\ \A i \in DOMAIN helper_ret : \E pl \in Places : helper_ret[i] = PassageAt(pl)
        /\ \A i, j \in DOMAIN helper_ret :
              i < j => ClaimedScore(ContentKey(helper_ret[i]))
                          >= ClaimedScore(ContentKey(helper_ret[j]))

\* Three lists are fused: a passage stands in two of them, two passages
\* share a content key, and the passage seen first is not the best one.
C22_Witness ==
    /\ op = "_reciprocal_rank_fusion"
    /\ Len(helper_args.results_lists) = 3
    /\ Len(helper_ret) >= 3
    /\ \E a, b \in Places : a[1] # b[1] /\ PassageAt(a) = PassageAt(b)
    /\ \E a, b \in Places : /\ PassageAt(a) # PassageAt(b)
                            /\ ContentKey(PassageAt(a)) = ContentKey(PassageAt(b))
    /\ helper_args.results_lists[1] # <<>>
    /\ helper_ret[1] # helper_args.results_lists[1][1]
    /\ ClaimedScore(ContentKey(helper_ret[1]))
          > ClaimedScore(ContentKey(helper_ret[Len(helper_ret)]))

\* C23: the fused list is the same for every order in which the same result
\* lists arrive.
C23_FusionIgnoresArrivalOrder ==
    [][FusePermuted => helper_ret' = helper_ret]_vars

\* The elements of a comma-joined list.
RECURSIVE CommaElements(_)
CommaElements(s) ==
    IF \A i \in DOMAIN s : s[i] # ","
    THEN <<s>>
    ELSE LET comma == CHOOSE i \in DOMAIN s :
                          s[i] = "," /\ \A j \in 1..(i - 1) : s[j] # ","
         IN <<SubSeq(s, 1, comma - 1)>> \o CommaElements(SubSeq(s, comma + 1, Len(s)))

WithoutWhitespace(s) == SelectSeq(s, LAMBDA c : ~IsSpace(c))

\* The passage cites a target: an element of its citation list is a target,
\* whitespace aside.
CitesTarget(doc, target_refs) ==
    /\ doc.metadata.citations # <<>>
    /\ \E e \in Range(CommaElements(doc.metadata.citations)), ref \in Range(target_refs) :
          WithoutWhitespace(e) = WithoutWhitespace(ref)

\* C26: _citation_search returns exactly the passages of the collection one
\* of whose citations is a target, whitespace aside; a target that is only
\* the beginning of a citation ("SN 3", "SN 35.2" for "SN 35.28") finds
\* nothing.
C26_CitationSearchMatchesWholeReferences ==
    op = "_citation_search" =>
        helper_ret = SelectSeq(store, LAMBDA doc :
                                  /\ doc.page_content # <<>>
                                  /\ CitesTarget(doc, helper_args.target_refs))

(***************************************************************************)
(* Properties of the indexer                                               *)
(***************************************************************************)
\* The documents a run of build_index makes of the PDFs, in order.
AllDocuments == FlatMap(LAMBDA pdf : pdf_documents(pdf), data_dir)

Fits(doc) == Len(doc.page_content) <= embedding.limit

\* C21: when the only failures of the backend are texts above its input
\* limit, a run of build_index ends without an exception and has added to
\* the collection every document that fits, in order, and none that does
\* not: a batch that fails is retried one document at a time, and the
\* batches after it are flushed.
C21_LimitFailuresAreSkipped ==
    [][(BuildIndex /\ embedding.up) =>
          /\ build_log'[Len(build_log')] = "returned"
          /\ store' = store \o SelectSeq(AllDocuments, Fits)]_vars

\* One run over the long and the short PDF: the first batch and the last
\* both hold a text above the limit, and the rest of both is stored.
C21_Witness ==
    /\ op = "build_index"
    /\ build_log = <<"returned">>
    /\ data_dir = <<LongPdf, ShortPdf>>
    /\ embedding.up
    /\ embedding.limit = 55
    /\ Len(AllDocuments) = BATCH_SIZE + 3
    /\ ~Fits(AllDocuments[7])
    /\ ~Fits(AllDocuments[BATCH_SIZE + 1])
    /\ Len(store) = BATCH_SIZE + 1
    /\ store[Len(store)] = AllDocuments[BATCH_SIZE + 3]

\* The identity of a passage: its source document, page and span.
PassageIdentity(doc) == <<doc.metadata.relpath, doc.metadata.page, doc.metadata.span_id>>

\* C28: after any number of runs of build_index over the same PDFs, no two
\* passages of the collection have the same source document, page and
\* span_id.
C28_EachPassageStoredOnce ==
    \A i, j \in DOMAIN store :
        PassageIdentity(store[i]) = PassageIdentity(store[j]) => i = j

\* C29: the documents the keyword and citation-targeted searches of a call
\* of retrieve scanned are the non-empty passages of the collection, whatever
\* runs of build_index and rebuild_bm25_index came before the call.
C29_KeywordIndexFollowsTheStore ==
    (op = "retrieved" /\ ret_out.kind = "returned") =>
        Range(_bm25_docs) = {doc \in Range(store) : doc.page_content # <<>>}

====
